---- MODULE Spec2Model ----
(***************************************************************************)
(* Verification model of the EDNA / self-aware genome library:             *)
(*   settings/mutationbounds.hpp   bounds arithmetic (rand, distance,      *)
(*                                 mutate, check) per value category       *)
(*   genotype/selfawaregenome.hpp  field managers, registry, EDNA<G>       *)
(*   genotype/selfawaregenome_test.cpp  the genomes InternalTrivial,       *)
(*                                 InternalComplex and External            *)
(*                                                                         *)
(* Numbers.  int and Enum values are integers.  A float is a finite value  *)
(* on an integer grid (one grid unit stands for the resolution of the      *)
(* example bounds); rounding is not modelled and NaN is not a field value. *)
(* A double returned by distance is an exact rational <<n, d>> with d > 0, *)
(* or one of the IEEE specials a division by a zero span produces:         *)
(* <<1,0>> = +Inf, <<-1,0>> = -Inf, <<0,0>> = NaN.                         *)
(***************************************************************************)
EXTENDS Integers, Sequences, FiniteSets, TLC

VARIABLES
  NDEBUG,   \* whether the build disables assert()
  T,        \* field level: value category of the field under operation
  bounds,   \* field level: the Bounds<T> object, [min, max]
  v,        \* field level: current value of the field
  last,     \* field level: record of the last operation performed
  aborted,  \* field level: an assert() failed, the process is gone
  Genome,        \* genome level: the genome type the operations are called on
  conf,     \* genome level: the EDNAConfigFile<G> parameters of every type
  g1,      \* genome level: a genome (first operand, serialised genome)
  g2,      \* genome level: a genome (second operand, from_json target)
  json,        \* genome level: the json value passed between to/from_json
  out,      \* genome level: record of the last operation performed
  registry, \* static initialisation: EDNA<G>::_iterator as built so far
  dice,     \* the dice of the program: for each its seed and its engine state
  files,    \* the file system: the text of every file, by path
  origin,   \* configuration: the Origin of every ConfigValue of the genome
  pc,       \* threads: where each thread stands in its call on the dice
  mtx,      \* threads: the owner of AtomicRNG_t::mtx, 0 when it is free
  stream    \* an ostream: its rdbuf, its iword slot and the indenters alive

fieldVars == <<NDEBUG, T, bounds, v, last, aborted>>

genomeVars == <<Genome, conf, g1, g2, json, out>>

sysVars == <<origin, pc, mtx, stream>>

extVars == <<registry, dice, files, origin, pc, mtx, stream>>

vars == <<NDEBUG, T, bounds, v, last, aborted, Genome, conf, g1, g2, json, out,
          registry, dice, files, origin, pc, mtx, stream>>

-----------------------------------------------------------------------------
(* Bounds of the model *)

\* int bounds are drawn from 1..MaxBound, int values from 0..MaxBound+1
MaxBound == 3

\* float bounds are drawn from -FB..FB, float values from -(FB+1)..(FB+1)
FB == 1

\* the bounds of an array element are drawn from 0..AB, its values from
\* -1..AB+1
AB == 1

\* stringField holds at most MaxStr characters
MaxStr == 1

\* vectorField holds at most MaxVec genomes
MaxVec == 1

\* the uniform distance weights are drawn from 0..MaxWeight
MaxWeight == 2

-----------------------------------------------------------------------------
(* doubles *)

DNaN == <<0, 0>>

DInf == <<1, 0>>

DNegInf == <<-1, 0>>

DZero == <<0, 1>>

Abs(x) == IF x < 0 THEN -x ELSE x

Sgn(x) == IF x < 0 THEN -1 ELSE IF x = 0 THEN 0 ELSE 1

RECURSIVE GCD(_, _)
GCD(a, b) == IF b = 0 THEN a ELSE GCD(b, a % b)

\* the rational n/d for d > 0, in lowest terms
Rat(n, d) == LET g == GCD(Abs(n), d) IN <<n \div g, d \div g>>

DFromInt(x) == <<x, 1>>

DIsFinite(x) == x[2] > 0

\* IEEE division of two doubles
DDiv(x, y) ==
  IF ~DIsFinite(x) \/ ~DIsFinite(y)
    THEN IF x = DNaN \/ y = DNaN \/ (~DIsFinite(x) /\ ~DIsFinite(y)) THEN DNaN
         ELSE IF ~DIsFinite(y) THEN DZero
         ELSE IF y[1] = 0 THEN x
         ELSE <<x[1] * Sgn(y[1]), 0>>
  ELSE IF y[1] = 0 THEN <<Sgn(x[1]), 0>>
  ELSE Rat(x[1] * y[2] * Sgn(y[1]), x[2] * Abs(y[1]))

\* IEEE addition of two doubles
DAdd(x, y) ==
  IF x = DNaN \/ y = DNaN THEN DNaN
  ELSE IF ~DIsFinite(x) /\ ~DIsFinite(y) THEN (IF x = y THEN x ELSE DNaN)
  ELSE IF ~DIsFinite(x) THEN x
  ELSE IF ~DIsFinite(y) THEN y
  ELSE Rat(x[1] * y[2] + y[1] * x[2], x[2] * y[2])

\* IEEE multiplication of two doubles
DMul(x, y) ==
  IF x = DNaN \/ y = DNaN THEN DNaN
  ELSE IF ~DIsFinite(x) \/ ~DIsFinite(y)
    THEN (IF x[1] = 0 \/ y[1] = 0 THEN DNaN ELSE <<Sgn(x[1]) * Sgn(y[1]), 0>>)
  ELSE Rat(x[1] * y[1], x[2] * y[2])

\* operator== of two doubles: NaN compares unequal to everything
DEq(x, y) == x # DNaN /\ y # DNaN /\ x = y

-----------------------------------------------------------------------------
(* value categories *)

Fundamental == {"int", "float"}

\* int, float, genotype::Enum and External::A = std::array<float,2>
Categories == {"int", "float", "Enum", "array<float>"}

IsArray(t) == t = "array<float>"

\* T::value_type of an array category
ValueType(t) == "float"

\* std::tuple_size of External::A
ASize == 2

\* genotype::Enum { V0, V1, V2 }
EnumBounds == 0..2

IntBounds == 1..MaxBound

FloatBounds == (-FB)..FB

ScalarBoundsOf(t) ==
  IF t = "int" THEN IntBounds ELSE IF t = "Enum" THEN EnumBounds ELSE FloatBounds

\* the values a field of a scalar category takes in the model: the bounds'
\* range and one value beyond it on each side
ScalarValues(t) ==
  IF t = "int" THEN 0..(MaxBound + 1)
  ELSE IF t = "Enum" THEN 0..3
  ELSE (-(FB + 1))..(FB + 1)

Values(t) ==
  IF IsArray(t) THEN [1..ASize -> (-1)..(AB + 1)]
  ELSE ScalarValues(t)

\* Bounds(T min, T max): the constructor's assert(min <= rndMin && ...)
BoundsCtor(t) ==
  IF IsArray(t)
    THEN {[min |-> lo, max |-> hi] :
            <<lo, hi>> \in {p \in [1..ASize -> 0..AB] \X [1..ASize -> 0..AB] :
                              \A i \in 1..ASize : p[1][i] <= p[2][i]}}
    ELSE {[min |-> lo, max |-> hi] :
            <<lo, hi>> \in {p \in ScalarBoundsOf(t) \X ScalarBoundsOf(t) :
                              p[1] <= p[2]}}

-----------------------------------------------------------------------------
(* BoundsOperators<T>, fundamental T *)

\* static double span (double min, double max)
span(min, max) == DFromInt(max - min)

StdMax(a, b) == IF a < b THEN b ELSE a

StdMin(a, b) == IF b < a THEN b ELSE a

\* static double distance (T lhs, T rhs, T min, T max)
Fundamental_distance(lhs, rhs, min, max) ==
  DDiv(DFromInt(StdMax(lhs, rhs) - StdMin(lhs, rhs)), span(min, max))

\* check with the bounds themselves rejected (<= for <)
Fundamental_check_strict(x, min, max) ==
  LET v1  == IF x <= min THEN min ELSE x
      ok1 == ~(x <= min)
      v2  == IF max <= v1 THEN max ELSE v1
      ok2 == ok1 /\ ~(max <= v1)
  IN  [v |-> v2, ok |-> ok2]

\* static bool check (T &v, T min, T max): the clamped value and the result
Fundamental_check(x, min, max) ==
  LET v1  == IF x < min THEN min ELSE x
      ok1 == ~(x < min)
      v2  == IF max < v1 THEN max ELSE v1
      ok2 == ok1 /\ ~(max < v1)
  IN  [v |-> v2, ok |-> ok2]

\* _mutate for integral U; dice(.5) is the coin.  The result carries
\* whether the assert fired.
Integral_mutate(x, min, max, coin, ndebug) ==
  IF ~ndebug /\ ~(min <= x /\ x <= max) THEN [v |-> x, st |-> "assert"]
  ELSE IF x = min THEN [v |-> min + 1, st |-> "ok"]
  ELSE IF x = max THEN [v |-> max - 1, st |-> "ok"]
  ELSE [v |-> x + (IF coin THEN -1 ELSE 1), st |-> "ok"]

\* the draws of rng::tndist(0, stddev, lo, hi, nonZero = true): the
\* rejection loop returns a non-zero value of [lo, hi]
TruncatedNormalDraws(lo, hi) == {d \in lo..hi : d # 0}

\* _mutate for floating point U; d is the draw of dice(dist)
FloatingPoint_mutate(x, min, max, d, ndebug) ==
  IF ~ndebug /\ ~(min <= x /\ x <= max) THEN [v |-> x, st |-> "assert"]
  ELSE IF min < max THEN [v |-> x + d, st |-> "ok"]
  ELSE [v |-> x, st |-> "ok"]

-----------------------------------------------------------------------------
(* BoundsOperators<T> by value category *)

RECURSIVE BoundsOperators_distance(_, _, _, _, _)
\* BoundsOperators<T>::distance; the array version sums the elements'
\* distances in index order, the enum version forwards the integers
BoundsOperators_distance(t, lhs, rhs, min, max) ==
  IF IsArray(t)
    THEN LET RECURSIVE Sum(_, _)
             Sum(i, d) ==
               IF i > ASize THEN d
               ELSE Sum(i + 1,
                        DAdd(d, BoundsOperators_distance(ValueType(t),
                                  lhs[i], rhs[i], min[i], max[i])))
         IN  Sum(1, DZero)
    ELSE Fundamental_distance(lhs, rhs, min, max)

\* check of an array with "ok =" for "ok &=": the last element decides
BoundsOperators_check_lastOnly(t, x, min, max) ==
  IF IsArray(t)
    THEN LET el(i) == Fundamental_check(x[i], min[i], max[i])
         IN  [v  |-> [i \in 1..ASize |-> el(i).v], ok |-> el(ASize).ok]
    ELSE Fundamental_check(x, min, max)

RECURSIVE BoundsOperators_check(_, _, _, _)
\* BoundsOperators<T>::check; the array version checks every element
\* (ok &= ...), the enum version checks the integer and casts it back
BoundsOperators_check(t, x, min, max) ==
  IF IsArray(t)
    THEN LET el(i) == BoundsOperators_check(ValueType(t), x[i], min[i], max[i])
         IN  [v  |-> [i \in 1..ASize |-> el(i).v],
              ok |-> \A i \in 1..ASize : el(i).ok]
    ELSE Fundamental_check(x, min, max)

RECURSIVE BoundsOperators_mutate(_, _, _, _, _)
\* BoundsOperators<T>::mutate: the set of outcomes over the draws of the
\* dice.  An array draws an index with dice(0ul, a.size()-1) and mutates
\* that element only; an enum mutates its integer.
BoundsOperators_mutate(t, x, min, max, ndebug) ==
  IF IsArray(t)
    THEN UNION {
           {[v  |-> [x EXCEPT ![i] = r.v], st |-> r.st] :
              r \in BoundsOperators_mutate(ValueType(t), x[i], min[i], max[i],
                                           ndebug)} : i \in 1..ASize}
  ELSE IF t = "float"
    THEN IF min < max /\ (ndebug \/ (min <= x /\ x <= max))
           THEN {FloatingPoint_mutate(x, min, max, d, ndebug) :
                   d \in TruncatedNormalDraws(min - x, max - x)}
           ELSE {FloatingPoint_mutate(x, min, max, 0, ndebug)}
  ELSE {Integral_mutate(x, min, max, coin, ndebug) : coin \in BOOLEAN}

-----------------------------------------------------------------------------
(* MutationSettings::Bounds<T,O> and GenomeFieldWithBounds<T,O,OFFSET> *)

\* double Bounds::distance (const T &lhs, const T &rhs) const
Bounds_distance(t, b, lhs, rhs) ==
  BoundsOperators_distance(t, lhs, rhs, b.min, b.max)

\* void Bounds::mutate (T &v, Dice &dice) const
Bounds_mutate(t, b, x, ndebug) ==
  BoundsOperators_mutate(t, x, b.min, b.max, ndebug)

\* bool Bounds::check (T &v) const
Bounds_check(t, b, x) == BoundsOperators_check(t, x, b.min, b.max)

\* bool GenomeField::check (O &object) const: runs checkPrivate, prints the
\* diagnostic when it failed, and returns its result
GenomeField_check(t, b, x) ==
  LET r == Bounds_check(t, b, x)
  IN  IF ~r.ok THEN [v |-> r.v, ok |-> FALSE] ELSE [v |-> r.v, ok |-> TRUE]

-----------------------------------------------------------------------------
(* Genome level: the genomes of selfawaregenome_test.cpp                   *)

GenomeTypes == {"InternalTrivial", "InternalComplex", "External"}

\* GenomeFieldInterface (name, alias): an empty alias stands for the name
GenomeFieldInterface(name, alias) ==
  [name |-> name, alias |-> IF alias = "" THEN name ELSE alias]

\* a field manager: its interface, its class (kind), the type of the field
\* and, for GenomeFieldWithBounds, the configuration parameter it refers to
Manager(kind, type, name, alias, ref) ==
  [name   |-> GenomeFieldInterface(name, alias).name,
   alias  |-> GenomeFieldInterface(name, alias).alias,
   kind   |-> kind, type |-> type, bounds |-> ref]

\* EDNA<G>::_iterator once the DEFINE_GENOME_FIELD_* managers are built: a
\* std::map, iterated in the order of the field names
Registry(G) ==
  IF G = "InternalTrivial"
    THEN << Manager("bounds", "float", "floatField", "ff", "floatFieldBounds") >>
  ELSE IF G = "InternalComplex"
    THEN << Manager("functor", "string", "stringField", "sf", "") >>
  ELSE << Manager("bounds", "array<float>", "arrayField", "af", "arrayFieldBounds"),
          Manager("bounds", "Enum", "enumField", "ef", "enumFieldBounds"),
          Manager("bounds", "int", "intField", "", "intFieldBounds"),
          Manager("subgenome", "InternalComplex", "recField", "rf", ""),
          Manager("functor", "vector<InternalTrivial>", "vectorField", "vf", "") >>

FieldNames(G) == {Registry(G)[i].name : i \in 1..Len(Registry(G))}

\* the characters of the model: '#', 'A', 'a'
Chars == {35, 65, 97}

islower(ch) == ch \in 97..122

isupper(ch) == ch \in 65..90

tolower(ch) == IF isupper(ch) THEN ch + 32 ELSE ch

\* stringFunctor().check: every character that is not lower case is replaced
StringFunctor_check(str) ==
  [v  |-> [i \in 1..Len(str) |->
             IF ~islower(str[i])
               THEN (IF isupper(str[i]) THEN tolower(str[i]) ELSE 97)
               ELSE str[i]],
   ok |-> \A i \in 1..Len(str) : islower(str[i])]

\* stringFunctor().distance, span = 'z' - 'a'
StringFunctor_distance(ls, rs) ==
  IF Len(ls) # Len(rs) THEN DFromInt(Abs(Len(ls) - Len(rs)))
  ELSE LET RECURSIVE Sum(_, _)
           Sum(i, d) ==
             IF i > Len(ls) THEN d
             ELSE Sum(i + 1, DAdd(d, DDiv(DFromInt(Abs(ls[i] - rs[i])),
                                          DFromInt(122 - 97))))
       IN  Sum(1, DZero)

RECURSIVE EDNA_check(_, _, _)
RECURSIVE EDNA_distance(_, _, _, _, _)
RECURSIVE EDNA_equal(_, _, _)

\* manager.check(object) on the field value x, by class of manager; the
\* vectorFunctor's check returns true, a subgenome forwards to T::check
Manager_check(c, G, m, x) ==
  IF m.kind = "bounds" THEN GenomeField_check(m.type, c[G][m.bounds], x)
  ELSE IF m.kind = "subgenome"
    THEN LET r == EDNA_check(c, m.type, x) IN [v |-> r.g, ok |-> r.ok]
  ELSE IF m.type = "string" THEN StringFunctor_check(x)
  ELSE [v |-> x, ok |-> TRUE]

\* static bool EDNA::check (G &object) that stops at the first failed field
EDNA_check_shortCircuit(c, G, object) ==
  LET R == Registry(G)
      RECURSIVE Loop(_, _, _)
      Loop(i, o, ok) ==
        IF i > Len(R) \/ ~ok THEN [g |-> o, ok |-> ok]
        ELSE LET r == Manager_check(c, G, R[i], o[R[i].name])
             IN  Loop(i + 1, [o EXCEPT ![R[i].name] = r.v], ok /\ r.ok)
  IN  Loop(1, object, TRUE)

\* static bool EDNA::check (G &object), checkExtension being the default
EDNA_check(c, G, object) ==
  LET R == Registry(G)
      RECURSIVE Loop(_, _, _)
      Loop(i, o, ok) ==
        IF i > Len(R) THEN [g |-> o, ok |-> ok]
        ELSE LET r == Manager_check(c, G, R[i], o[R[i].name])
             IN  Loop(i + 1, [o EXCEPT ![R[i].name] = r.v], ok /\ r.ok)
  IN  Loop(1, object, TRUE)

\* vectorFunctor().distance: the loop runs over lhs; an element of rhs read
\* past its end is whatever the memory holds (junk)
VectorFunctor_distance(c, lhs, rhs, junk) ==
  LET RECURSIVE Sum(_, _)
      Sum(i, d) ==
        IF i > Len(lhs) THEN d
        ELSE Sum(i + 1,
                 DAdd(d, EDNA_distance(c, "InternalTrivial", lhs[i],
                           IF i <= Len(rhs) THEN rhs[i] ELSE junk, junk)))
  IN  Sum(1, DZero)

\* manager.distance(lhs, rhs) on the field values, by class of manager
Manager_distance(c, G, m, l, r, junk) ==
  IF m.kind = "bounds" THEN Bounds_distance(m.type, c[G][m.bounds], l, r)
  ELSE IF m.kind = "subgenome" THEN EDNA_distance(c, m.type, l, r, junk)
  ELSE IF m.type = "string" THEN StringFunctor_distance(l, r)
  ELSE VectorFunctor_distance(c, l, r, junk)

\* distance with "weight + distance" for "weight * distance"
EDNA_distance_plus(c, G, lhs, rhs, junk) ==
  LET R == Registry(G)
      RECURSIVE Sum(_, _)
      Sum(i, d) ==
        IF i > Len(R) THEN d
        ELSE Sum(i + 1,
                 DAdd(d, DAdd(DFromInt(c[G].distanceWeights[R[i].name]),
                              Manager_distance(c, G, R[i], lhs[R[i].name],
                                               rhs[R[i].name], junk))))
  IN  Sum(1, DZero)

\* static double EDNA::distance (const G &lhs, const G &rhs),
\* distanceExtension being the default
EDNA_distance(c, G, lhs, rhs, junk) ==
  LET R == Registry(G)
      RECURSIVE Sum(_, _)
      Sum(i, d) ==
        IF i > Len(R) THEN d
        ELSE Sum(i + 1,
                 DAdd(d, DMul(DFromInt(c[G].distanceWeights[R[i].name]),
                              Manager_distance(c, G, R[i], lhs[R[i].name],
                                               rhs[R[i].name], junk))))
  IN  Sum(1, DZero)

\* manager.equal(lhs, rhs): operator== of the field type
Manager_equal(m, l, r) ==
  IF m.type \in {"int", "Enum", "float", "string"} THEN l = r
  ELSE IF m.type = "array<float>" THEN \A i \in 1..ASize : l[i] = r[i]
  ELSE IF m.type = "vector<InternalTrivial>"
    THEN /\ Len(l) = Len(r)
         /\ \A i \in 1..Len(l) : EDNA_equal("InternalTrivial", l[i], r[i])
  ELSE EDNA_equal(m.type, l, r)

\* friend bool operator== (const G &lhs, const G &rhs), equalExtension
\* being the default
EDNA_equal(G, lhs, rhs) ==
  \A i \in 1..Len(Registry(G)) :
    Manager_equal(Registry(G)[i], lhs[Registry(G)[i].name],
                  rhs[Registry(G)[i].name])

-----------------------------------------------------------------------------
(* nlohmann::json values: a tag and a payload; an object maps its keys     *)

JNull == [jt |-> "null", val |-> <<>>]

JNum(n) == [jt |-> "number", val |-> n]

JStr(str) == [jt |-> "string", val |-> str]

JArr(a) == [jt |-> "array", val |-> a]

JObj(o) == [jt |-> "object", val |-> o]

\* j.erase(it)
JErase(o, key) == [k \in (DOMAIN o) \ {key} |-> o[k]]

\* j[key] = value
JSet(o, key, value) == [k \in (DOMAIN o) \cup {key} |-> IF k = key THEN value ELSE o[k]]

\* G(): the default-constructed InternalTrivial and InternalComplex
DefaultGenome(G) ==
  IF G = "InternalTrivial" THEN [floatField |-> 0] ELSE [stringField |-> <<>>]

RECURSIVE EDNA_to_json(_, _)
RECURSIVE EDNA_from_json(_, _, _, _)

\* manager.to_json(j, object): j = get(object)
Manager_to_json(m, x) ==
  IF m.type \in {"int", "Enum", "float"} THEN JNum(x)
  ELSE IF m.type = "string" THEN JStr(x)
  ELSE IF m.type = "array<float>" THEN JArr([i \in 1..ASize |-> JNum(x[i])])
  ELSE IF m.type = "vector<InternalTrivial>"
    THEN JArr([i \in 1..Len(x) |-> EDNA_to_json("InternalTrivial", x[i])])
  ELSE EDNA_to_json(m.type, x)

\* friend void to_json (json &j, const G &g), to_jsonExtension being the
\* default: one key per manager, the alias
EDNA_to_json(G, g) ==
  LET R == Registry(G)
      RECURSIVE Loop(_, _)
      Loop(i, o) ==
        IF i > Len(R) THEN o
        ELSE Loop(i + 1, JSet(o, R[i].alias, Manager_to_json(R[i], g[R[i].name])))
  IN  JObj(Loop(1, <<>>))

\* j.get<T>() for the type of a field: the value, or the exception a nested
\* from_json raised
Json_get(c, type, jv) ==
  IF type \in {"int", "Enum", "float", "string"}
    THEN [v |-> jv.val, thrown |-> FALSE, missing |-> {}, extra |-> {}]
  ELSE IF type = "array<float>"
    THEN [v |-> [i \in 1..ASize |-> jv.val[i].val], thrown |-> FALSE,
          missing |-> {}, extra |-> {}]
  ELSE IF type = "vector<InternalTrivial>"
    THEN LET elem(i) == EDNA_from_json(c, "InternalTrivial", jv.val[i],
                                       DefaultGenome("InternalTrivial"))
             bad == {i \in 1..Len(jv.val) : elem(i).thrown}
         IN  IF bad = {}
               THEN [v |-> [i \in 1..Len(jv.val) |-> elem(i).g],
                     thrown |-> FALSE, missing |-> {}, extra |-> {}]
               ELSE LET i == CHOOSE k \in bad : \A n \in bad : k <= n
                    IN  [v |-> <<>>, thrown |-> TRUE,
                         missing |-> elem(i).missing, extra |-> elem(i).extra]
  ELSE LET r == EDNA_from_json(c, type, jv, DefaultGenome(type))
       IN  [v |-> r.g, thrown |-> r.thrown, missing |-> r.missing,
            extra |-> r.extra]

\* from_json without "ok &= j.empty()": left-over keys are not an error
EDNA_from_json_noExtra(c, G, j_, g) ==
  LET R == Registry(G)
      RECURSIVE Loop(_, _, _, _, _)
      Loop(i, o, j, ok, missing) ==
        IF i > Len(R)
          THEN [g |-> EDNA_check(c, G, o).g, thrown |-> ~ok,
                missing |-> missing, extra |-> DOMAIN j]
        ELSE IF R[i].alias \in DOMAIN j
          THEN LET r == Json_get(c, R[i].type, j[R[i].alias])
               IN  IF r.thrown
                     THEN [g |-> o, thrown |-> TRUE, missing |-> r.missing,
                           extra |-> r.extra]
                     ELSE Loop(i + 1, [o EXCEPT ![R[i].name] = r.v],
                               JErase(j, R[i].alias), ok, missing)
        ELSE Loop(i + 1, o, j, FALSE, missing \cup {R[i].name})
  IN  Loop(1, g, j_.val, TRUE, {})

\* friend void from_json (const json &j_, G &g), from_jsonExtension being the
\* default.  The result is the genome as the call leaves it, whether
\* invalid_argument was thrown, and the fields and keys its message names.
EDNA_from_json(c, G, j_, g) ==
  LET R == Registry(G)
      RECURSIVE Loop(_, _, _, _, _)
      Loop(i, o, j, ok, missing) ==
        IF i > Len(R)
          THEN [g |-> EDNA_check(c, G, o).g,
                thrown |-> ~(ok /\ DOMAIN j = {}),
                missing |-> missing, extra |-> DOMAIN j]
        ELSE IF R[i].alias \in DOMAIN j
          THEN LET r == Json_get(c, R[i].type, j[R[i].alias])
               IN  IF r.thrown
                     THEN [g |-> o, thrown |-> TRUE, missing |-> r.missing,
                           extra |-> r.extra]
                     ELSE Loop(i + 1, [o EXCEPT ![R[i].name] = r.v],
                               JErase(j, R[i].alias), ok, missing)
        ELSE Loop(i + 1, o, j, FALSE, missing \cup {R[i].name})
  IN  Loop(1, g, j_.val, TRUE, {})

-----------------------------------------------------------------------------
(* Genomes and configurations of the model *)

Strings == UNION {[1..n -> Chars] : n \in 0..MaxStr}

InternalTrivials == {[floatField |-> f] : f \in ScalarValues("float")}

\* the values a field of a genome takes in the model
FieldDomain(name) ==
  IF name = "floatField" THEN ScalarValues("float")
  ELSE IF name = "stringField" THEN Strings
  ELSE IF name = "arrayField" THEN Values("array<float>")
  ELSE IF name = "enumField" THEN ScalarValues("Enum")
  ELSE IF name = "intField" THEN ScalarValues("int")
  ELSE IF name = "recField" THEN {[stringField |-> str] : str \in Strings}
  ELSE UNION {[1..n -> InternalTrivials] : n \in 0..MaxVec}

BaseGenome(g) ==
  IF g \in {"InternalTrivial", "InternalComplex"} THEN DefaultGenome(g)
  ELSE [arrayField |-> [i \in 1..ASize |-> 0], enumField |-> 0, intField |-> 1,
        recField |-> DefaultGenome("InternalComplex"), vectorField |-> <<>>]

OtherGenome(g) ==
  IF g = "InternalTrivial" THEN [floatField |-> FB]
  ELSE IF g = "InternalComplex" THEN [stringField |-> <<97>>]
  ELSE [arrayField |-> [i \in 1..ASize |-> AB], enumField |-> 2,
        intField |-> MaxBound, recField |-> [stringField |-> <<97>>],
        vectorField |-> <<[floatField |-> FB]>>]

\* the genomes of the model: one field of the base genome takes any value
Samples(g) ==
  UNION {{[BaseGenome(g) EXCEPT ![f] = x] : x \in FieldDomain(f)} :
           f \in FieldNames(g)}

\* the bounds parameters, each over the whole range of the model
WideBounds ==
  [floatFieldBounds |-> [min |-> -FB, max |-> FB],
   arrayFieldBounds |-> [min |-> [i \in 1..ASize |-> 0],
                         max |-> [i \in 1..ASize |-> AB]],
   enumFieldBounds  |-> [min |-> 0, max |-> 2],
   intFieldBounds   |-> [min |-> 1, max |-> MaxBound]]

\* the bounds parameters: all wide, or one of them with max = min
BoundsConfigs ==
  {WideBounds} \cup
  {[WideBounds EXCEPT ![p].max = WideBounds[p].min] : p \in DOMAIN WideBounds}

\* DEFINE_GENOME_DISTANCE_WEIGHTS of the three genomes
TestWeights ==
  [InternalTrivial |-> [floatField |-> 1],
   InternalComplex |-> [stringField |-> 1],
   External |-> [intField |-> 2, enumField |-> 1, arrayField |-> 4,
                 vectorField |-> 4, recField |-> 4]]

\* the distance weights: those of the example, or one weight for all fields
WeightConfigs ==
  {TestWeights} \cup
  {[g \in GenomeTypes |-> [f \in FieldNames(g) |-> w]] : w \in 0..MaxWeight}

\* the parameters of EDNAConfigFile<G> for every genome type
Config(b, w) ==
  [InternalTrivial |-> [floatFieldBounds |-> b.floatFieldBounds,
                        distanceWeights |-> w.InternalTrivial],
   InternalComplex |-> [distanceWeights |-> w.InternalComplex],
   External |-> [arrayFieldBounds |-> b.arrayFieldBounds,
                 enumFieldBounds |-> b.enumFieldBounds,
                 intFieldBounds |-> b.intFieldBounds,
                 distanceWeights |-> w.External]]

NoOut(g) ==
  [op |-> "init", pre |-> g, thrown |-> FALSE, missing |-> {}, extra |-> {},
   dist |-> DZero, rdist |-> DZero]

NoOp(x) ==
  [op |-> "init", pre |-> x, arg |-> x, ret |-> TRUE,
   dist |-> DZero, rdist |-> DZero]

\* the field level at rest
FieldIdle ==
  /\ NDEBUG = FALSE
  /\ T = "int"
  /\ bounds = [min |-> 1, max |-> 1]
  /\ v = 1
  /\ last = NoOp(1)
  /\ aborted = FALSE

\* the genome level at rest
GenomeIdle ==
  /\ Genome = "InternalTrivial"
  /\ conf = Config(WideBounds, TestWeights)
  /\ g1 = DefaultGenome("InternalTrivial")
  /\ g2 = DefaultGenome("InternalTrivial")
  /\ json = JNull
  /\ out = NoOut(DefaultGenome("InternalTrivial"))

\* configuration, threads and streams at rest
SysIdle ==
  /\ origin = <<>>
  /\ pc = <<>>
  /\ mtx = 0
  /\ stream = <<>>

\* the remaining state at rest
ExtIdle ==
  /\ registry = <<>>
  /\ dice = <<>>
  /\ files = <<>>
  /\ SysIdle

-----------------------------------------------------------------------------
(* Genome level, distance: distance(g1, g2) on two genomes               *)

InitDistance ==
  /\ FieldIdle
  /\ ExtIdle
  /\ Genome \in GenomeTypes
  /\ conf \in {Config(b, w) : b \in BoundsConfigs, w \in WeightConfigs}
  /\ g1 \in Samples(Genome)
  /\ g2 \in Samples(Genome)
  /\ json = JNull
  /\ out = NoOut(g2)

\* what an element of vectorField read past the end can hold, when one of
\* the two distance calls reads one
PastTheEnd(g, l, r) ==
  IF g = "External" /\ Len(l.vectorField) # Len(r.vectorField)
    THEN InternalTrivials
    ELSE {DefaultGenome("InternalTrivial")}

\* distance(g1, g2) and distance(g2, g1)
GenomeDistance ==
  /\ out.op = "init"
  /\ \E junk \in PastTheEnd(Genome, g1, g2) :
       out' = [NoOut(g2) EXCEPT
                 !.op = "distance",
                 !.dist = EDNA_distance(conf, Genome, g1, g2, junk),
                 !.rdist = EDNA_distance(conf, Genome, g2, g1, junk)]
  /\ UNCHANGED <<Genome, conf, g1, g2, json>>
  /\ UNCHANGED fieldVars
  /\ UNCHANGED extVars

NextDistance == GenomeDistance

SpecDistance == InitDistance /\ [][NextDistance]_vars

-----------------------------------------------------------------------------
(* Genome level, serialisation: to_json(j, g1), the json object altered,  *)
(* from_json(j, g2)                                                       *)

\* keys that are the alias of no field
ExtraKeys == {"x1", "x2"}

Aliases(g) == {Registry(g)[i].alias : i \in 1..Len(Registry(g))}

InitJson ==
  /\ FieldIdle
  /\ ExtIdle
  /\ Genome \in GenomeTypes
  /\ conf \in {Config(b, TestWeights) : b \in BoundsConfigs}
  /\ g1 \in Samples(Genome)
  /\ g2 \in {BaseGenome(Genome), OtherGenome(Genome)}
  /\ json = JNull
  /\ out = NoOut(g2)

\* json j = g1
ToJson ==
  /\ json = JNull
  /\ json' = EDNA_to_json(Genome, g1)
  /\ out' = [NoOut(g2) EXCEPT !.op = "to_json"]
  /\ UNCHANGED <<Genome, conf, g1, g2>>
  /\ UNCHANGED fieldVars
  /\ UNCHANGED extVars

\* a key of the object is removed before it is read back
DropKey ==
  /\ json # JNull
  /\ out.op # "from_json"
  /\ \E k \in DOMAIN json.val : json' = JObj(JErase(json.val, k))
  /\ out' = [NoOut(g2) EXCEPT !.op = "edit"]
  /\ UNCHANGED <<Genome, conf, g1, g2>>
  /\ UNCHANGED fieldVars
  /\ UNCHANGED extVars

\* a key that is no alias is added before the object is read back
AddKey ==
  /\ json # JNull
  /\ out.op # "from_json"
  /\ \E k \in ExtraKeys \ DOMAIN json.val : json' = JObj(JSet(json.val, k, JNum(0)))
  /\ out' = [NoOut(g2) EXCEPT !.op = "edit"]
  /\ UNCHANGED <<Genome, conf, g1, g2>>
  /\ UNCHANGED fieldVars
  /\ UNCHANGED extVars

\* from_json(j, g2)
FromJson ==
  /\ json # JNull
  /\ out.op # "from_json"
  /\ LET r == EDNA_from_json(conf, Genome, json, g2)
     IN  /\ g2' = r.g
         /\ out' = [NoOut(g2) EXCEPT !.op = "from_json", !.thrown = r.thrown,
                                      !.missing = r.missing, !.extra = r.extra]
  /\ UNCHANGED <<Genome, conf, g1, json>>
  /\ UNCHANGED fieldVars
  /\ UNCHANGED extVars

NextJson == ToJson \/ DropKey \/ AddKey \/ FromJson

SpecJson == InitJson /\ [][NextJson]_vars

-----------------------------------------------------------------------------
(* Field level: one bounds-driven field under assignment, check, mutate   *)
(* and distance                                                           *)

FieldInit ==
  /\ NDEBUG \in BOOLEAN
  /\ T \in Categories
  /\ bounds \in BoundsCtor(T)
  /\ v \in Values(T)        \* whatever user code stored (g.intField = 42)
  /\ last = NoOp(v)
  /\ aborted = FALSE

\* manager.check(object)
Check ==
  /\ ~aborted
  /\ LET r == GenomeField_check(T, bounds, v)
     IN  /\ v' = r.v
         /\ last' = [NoOp(v) EXCEPT !.op = "check", !.ret = r.ok]
  /\ UNCHANGED <<NDEBUG, T, bounds, aborted>>
  /\ UNCHANGED genomeVars
  /\ UNCHANGED extVars

\* manager.mutate(object, dice)
Mutate ==
  /\ ~aborted
  /\ \E r \in Bounds_mutate(T, bounds, v, NDEBUG) :
       /\ r.v \in Values(T)
       /\ v' = r.v
       /\ aborted' = (r.st = "assert")
       /\ last' = [NoOp(v) EXCEPT !.op = "mutate"]
  /\ UNCHANGED <<NDEBUG, T, bounds>>
  /\ UNCHANGED genomeVars
  /\ UNCHANGED extVars

\* manager.distance(lhs, rhs) and manager.distance(rhs, lhs) with the field's
\* value as lhs
Distance ==
  /\ ~aborted
  /\ \E rhs \in Values(T) :
       last' = [NoOp(v) EXCEPT !.op = "distance", !.arg = rhs,
                               !.dist = Bounds_distance(T, bounds, v, rhs),
                               !.rdist = Bounds_distance(T, bounds, rhs, v)]
  /\ UNCHANGED <<NDEBUG, T, bounds, v, aborted>>
  /\ UNCHANGED genomeVars
  /\ UNCHANGED extVars


Init == FieldInit /\ GenomeIdle /\ ExtIdle

Next == Check \/ Mutate \/ Distance

Spec == Init /\ [][Next]_vars

-----------------------------------------------------------------------------
(* Properties of the field level *)

\* min <= x <= max, element by element for an array
InBounds(t, b, x) ==
  IF IsArray(t) THEN \A i \in 1..ASize : b.min[i] <= x[i] /\ x[i] <= b.max[i]
  ELSE b.min <= x /\ x <= b.max

\* min == max, for every element of an array
Degenerate(t, b) ==
  IF IsArray(t) THEN \A i \in 1..ASize : b.min[i] = b.max[i]
  ELSE b.min = b.max

\* the nearest value of [min, max]
Nearest(x, min, max) == IF x < min THEN min ELSE IF x > max THEN max ELSE x

NearestOf(t, b, x) ==
  IF IsArray(t) THEN [i \in 1..ASize |-> Nearest(x[i], b.min[i], b.max[i])]
  ELSE Nearest(x, b.min, b.max)

C2_CheckClamps ==
  last.op = "check" =>
    /\ v = NearestOf(T, bounds, last.pre)
    /\ (last.ret = FALSE) <=> (v # last.pre)

C2_Witness ==
  /\ last.op = "check" /\ T = "int"
  /\ last.pre = bounds.max + 1 /\ v = bounds.max /\ last.ret = FALSE

\* C3: for an integer or enum field and bounds min <= max, a mutate call on a
\* value within [min, max] never produces a value outside [min, max].
C3_MutateStaysInBounds ==
  [][(last'.op = "mutate" /\ T \in {"int", "Enum"} /\ InBounds(T, bounds, v))
       => InBounds(T, bounds, v')]_vars

\* C4: with degenerate bounds (min == max) mutate is a no-op on a value within
\* the bounds: the value is unchanged and no assertion fails.
C4_DegenerateMutateNoOp ==
  [][(last'.op = "mutate" /\ Degenerate(T, bounds) /\ InBounds(T, bounds, v))
       => (v' = v /\ ~aborted')]_vars

\* C5: with degenerate bounds (min == max) distance returns 0.
C5_DegenerateDistanceZero ==
  (last.op = "distance" /\ Degenerate(T, bounds)) => DEq(last.dist, DZero)

\* C6: distance is symmetric: distance(a, b) == distance(b, a) for every
\* pair of values of a bounds-driven field (scalar, enum, array).
C6_DistanceSymmetric ==
  last.op = "distance" => DEq(last.dist, last.rdist)

-----------------------------------------------------------------------------
(* Properties of the genome level *)

\* the bounds parameters the distance of a genome of type g divides by
BoundsUsed(g) ==
  IF g = "InternalTrivial" THEN {"InternalTrivial"}
  ELSE IF g = "InternalComplex" THEN {}
  ELSE {"InternalTrivial", "External"}

\* min < max for every bounds parameter a genome of type g uses
NonDegenerate(c, g) ==
  \A o \in BoundsUsed(g) :
    \A i \in 1..Len(Registry(o)) :
      LET m == Registry(o)[i]
      IN  m.kind = "bounds" =>
            IF IsArray(m.type)
              THEN \A k \in 1..ASize : c[o][m.bounds].min[k] < c[o][m.bounds].max[k]
              ELSE c[o][m.bounds].min < c[o][m.bounds].max

C8_JsonRoundTrip ==
  (/\ out.op = "from_json"
   /\ json = EDNA_to_json(Genome, g1)
   /\ EDNA_check(conf, Genome, g1).ok)
    => (~out.thrown /\ EDNA_equal(Genome, g2, g1))

\* C9: when from_json throws because an alias is missing or an extra key is
\* present, the target holds the same field values as before the call.
C9_NoPartialLoad ==
  (out.op = "from_json" /\ out.thrown) => g2 = out.pre

\* the registered fields whose alias is no key of the object o
MissingFields(g, o) ==
  {Registry(g)[i].name : i \in {k \in 1..Len(Registry(g)) :
                                  Registry(g)[k].alias \notin DOMAIN o}}

-----------------------------------------------------------------------------
(* Static initialisation: the field managers are constructed and register  *)
(* themselves in EDNA<G>::_iterator, then buildMap builds the mutation     *)
(* rates and the distance weights from an initializer list                 *)

\* an initializer list handed to buildMap holds at most MaxList pairs
MaxList == 3

\* the DEFINE_GENOME_FIELD_* lines of a genome type, in source order
DefinitionOrder(G) ==
  IF G = "InternalTrivial" THEN <<"floatField">>
  ELSE IF G = "InternalComplex" THEN <<"stringField">>
  ELSE <<"intField", "vectorField", "recField", "enumField", "arrayField">>

\* the manager a DEFINE_GENOME_FIELD_* line constructs
ManagerOf(G, name) ==
  CHOOSE m \in {Registry(G)[i] : i \in 1..Len(Registry(G))} : m.name = name

\* the members of GenomeFieldWithFunctor::Functor, in the order the
\* constructor checks them
Closures == <<"random", "mutate", "cross", "distance", "check">>

\* a Functor: for each closure whether it is set (TRUE) or null
Functors == [{Closures[i] : i \in 1..Len(Closures)} -> BOOLEAN]

\* buildFromSubgenome: every closure forwards to the subgenome's function
buildFromSubgenome == [c \in {Closures[i] : i \in 1..Len(Closures)} |-> TRUE]

\* registry.emplace(name, *this): an existing key is kept
Emplace(r, name, m) ==
  IF name \in DOMAIN r THEN r
  ELSE [k \in (DOMAIN r) \cup {name} |-> IF k = name THEN m ELSE r[k]]

\* constructor that throws when all five closures are null only
GenomeFieldWithFunctor_ctor_allNull(r, m, f) ==
  LET null == {i \in 1..Len(Closures) : ~f[Closures[i]]}
  IN  [registry |-> Emplace(r, m.name, m),
       thrown   |-> null = 1..Len(Closures),
       what     |-> IF null = 1..Len(Closures) THEN Closures[1] ELSE ""]

\* GenomeFieldWithFunctor (name, alias, registry, f): the GenomeField base
\* registers the manager, then checkFunctor throws at the first null closure
GenomeFieldWithFunctor_ctor(r, m, f) ==
  LET null == {i \in 1..Len(Closures) : ~f[Closures[i]]}
  IN  [registry |-> Emplace(r, m.name, m),
       thrown   |-> null # {},
       what     |-> IF null = {} THEN ""
                    ELSE Closures[CHOOSE i \in null : \A k \in null : i <= k]]

\* field names that are no key of the registry
UnknownNames == {"u1", "u2"}

\* the initializer lists of the model: pairs {field name, rate}
Lists(names) ==
  UNION {[1..n -> [name : names, rate : {1, 2}]] : n \in 0..MaxList}

\* the names of the entries of a list
ListNames(l) == {l[i].name : i \in 1..Len(l)}

\* buildMap without the loop over the fields left in fNames
buildMap_noLeft(it, l) ==
  LET unknown == {n \in ListNames(l) : n \notin DOMAIN it}
      ok      == unknown = {}
  IN  [thrown |-> ~ok, unknown |-> unknown, left |-> {},
       map |-> IF ~ok THEN <<>>
               ELSE [n \in ListNames(l) |->
                       l[CHOOSE i \in 1..Len(l) :
                           l[i].name = n /\ \A k \in i+1..Len(l) : l[k].name # n].rate]]

\* buildMap(it, l): fNames collects the keys of the registry; every entry of
\* the list erases its name from fNames and is reported when the registry
\* does not know it; the names left in fNames are reported; then it throws,
\* or builds the map with map[name] = rate entry after entry
buildMap(it, l) ==
  LET unknown == {n \in ListNames(l) : n \notin DOMAIN it}
      fNames  == (DOMAIN it) \ ListNames(l)
      ok      == unknown = {} /\ fNames = {}
  IN  [thrown |-> ~ok, unknown |-> unknown, left |-> fNames,
       map |-> IF ~ok THEN <<>>
               ELSE [n \in ListNames(l) |->
                       l[CHOOSE i \in 1..Len(l) :
                           l[i].name = n /\ \A k \in i+1..Len(l) : l[k].name # n].rate]]

\* the record of a static initialisation step
NoStep ==
  [op |-> "init", name |-> "", functor |-> buildFromSubgenome, list |-> <<>>,
   pre |-> <<>>, thrown |-> FALSE, what |-> "", unknown |-> {}, left |-> {},
   map |-> <<>>]

InitStatic ==
  /\ SysIdle
  /\ FieldIdle
  /\ Genome \in GenomeTypes
  /\ conf = Config(WideBounds, TestWeights)
  /\ g1 = DefaultGenome("InternalTrivial")
  /\ g2 = DefaultGenome("InternalTrivial")
  /\ json = JNull
  /\ out = NoStep
  /\ registry = <<>>
  /\ dice = <<>>
  /\ files = <<>>

\* the next DEFINE_GENOME_FIELD_* line runs: a bounds-driven manager
\* registers; a functor-driven manager is given a Functor of user code; a
\* subgenome manager builds its own.  An exception ends the program.
DefineField ==
  /\ ~out.thrown
  /\ out.op \in {"init", "define"}
  /\ Cardinality(DOMAIN registry) < Len(DefinitionOrder(Genome))
  /\ LET name == DefinitionOrder(Genome)[Cardinality(DOMAIN registry) + 1]
         m    == ManagerOf(Genome, name)
     IN  \E f \in (IF m.kind = "functor" THEN Functors ELSE {buildFromSubgenome}) :
           LET r == IF m.kind = "bounds"
                      THEN [registry |-> Emplace(registry, name, m),
                            thrown |-> FALSE, what |-> ""]
                      ELSE GenomeFieldWithFunctor_ctor(registry, m, f)
           IN  /\ registry' = r.registry
               /\ out' = [NoStep EXCEPT !.op = "define", !.name = name,
                                        !.functor = f, !.pre = registry,
                                        !.thrown = r.thrown, !.what = r.what]
  /\ UNCHANGED <<Genome, conf, g1, g2, json, dice, files>>
  /\ UNCHANGED sysVars
  /\ UNCHANGED fieldVars

\* DEFINE_GENOME_MUTATION_RATES / DEFINE_GENOME_DISTANCE_WEIGHTS: buildMap
\* on the registry and an initializer list
BuildMap ==
  /\ ~out.thrown
  /\ out.op \in {"init", "define"}
  /\ \E l \in Lists(FieldNames(Genome) \cup UnknownNames) :
       LET r == buildMap(registry, l)
       IN  out' = [NoStep EXCEPT !.op = "buildMap", !.list = l,
                                 !.pre = registry, !.thrown = r.thrown,
                                 !.unknown = r.unknown, !.left = r.left,
                                 !.map = r.map]
  /\ UNCHANGED <<Genome, conf, g1, g2, json, registry, dice, files>>
  /\ UNCHANGED sysVars
  /\ UNCHANGED fieldVars

NextStatic == DefineField \/ BuildMap

SpecStatic == InitStatic /\ [][NextStatic]_vars

\* C18: buildMap throws iff its list names a field that is not in the
\* registry or some registered field is named by no entry; the message
\* reports every unknown name and every uncovered field; when it does not
\* throw, the key set of the map equals the set of registered field names.
C18_BuildMapValidates ==
  out.op = "buildMap" =>
    LET unknown == {n \in ListNames(out.list) : n \notin DOMAIN registry}
        left    == {n \in DOMAIN registry : n \notin ListNames(out.list)}
    IN  /\ out.thrown <=> (unknown # {} \/ left # {})
        /\ out.thrown => (out.unknown = unknown /\ out.left = left /\ out.map = <<>>)
        /\ ~out.thrown => DOMAIN out.map = DOMAIN registry

C18_Witness ==
  /\ out.op = "buildMap" /\ out.thrown
  /\ out.unknown = UnknownNames
  /\ Cardinality(out.left) >= 2

\* C19: an accepted list covers every registered field exactly once: a list
\* naming the same registered field in two entries is rejected.
C19_ExactlyOnce ==
  (out.op = "buildMap" /\ ~out.thrown) =>
    \A n \in DOMAIN registry :
      Cardinality({i \in 1..Len(out.list) : out.list[i].name = n}) = 1

\* C20: constructing a functor-driven manager throws iff at least one of its
\* five closures is null; when none is, the manager is registered under the
\* field's name.
C20_NullFunctorThrows ==
  (out.op = "define" /\ ManagerOf(Genome, out.name).kind = "functor") =>
    /\ out.thrown <=> (\E c \in DOMAIN out.functor : ~out.functor[c])
    /\ ~out.thrown => (/\ out.name \in DOMAIN registry
                       /\ registry[out.name] = ManagerOf(Genome, out.name))

C20_Witness ==
  /\ out.op = "define" /\ out.name = "vectorField"
  /\ out.thrown /\ out.what = "check"
  /\ out.functor = [buildFromSubgenome EXCEPT !["check"] = FALSE]

-----------------------------------------------------------------------------
(* Evolutionary interface: mutate(object, dice) and cross(lhs, rhs, dice); *)
(* the draws of the dice are the inputs of the actions                     *)

\* the rates of a mutation-rate map are drawn from 0..MaxRate
MaxRate == 1

\* DEFINE_GENOME_MUTATION_RATES of the three genomes
TestRates ==
  [InternalTrivial |-> [floatField |-> 1],
   InternalComplex |-> [stringField |-> 1],
   External |-> [intField |-> 2, enumField |-> 1, arrayField |-> 4,
                 vectorField |-> 4, recField |-> 4]]

\* the mutation rates: those of the example, or any non-negative rates for
\* one genome type
RateConfigs ==
  {TestRates} \cup
  UNION {{[TestRates EXCEPT ![g] = r] : r \in [FieldNames(g) -> 0..MaxRate]} :
           g \in GenomeTypes}

\* the configuration with the mutationRates parameter of every genome type
ConfigMR(b, w, mr) ==
  [g \in GenomeTypes |->
     [k \in (DOMAIN Config(b, w)[g]) \cup {"mutationRates"} |->
        IF k = "mutationRates" THEN mr[g] ELSE Config(b, w)[g][k]]]

\* pickOne that draws uniformly among the keys, whatever the rates
pickOne_uniform(map) == DOMAIN map

\* AbstractDice::pickOne(map): the keys std::discrete_distribution can
\* return, those with a positive value; when no value is positive the
\* distribution's precondition is broken and any key can come out
pickOne(map) ==
  IF \E k \in DOMAIN map : map[k] > 0
    THEN {k \in DOMAIN map : map[k] > 0}
    ELSE DOMAIN map

RECURSIVE EDNA_mutate(_, _, _, _)

\* manager.mutate(object, dice) on the field value x, by class of manager:
\* the outcomes [v, st] with st "ok", "assert" (an assert failed) or
\* "throws" (invalid_argument from the dice)
Manager_mutate(c, G, m, x, ndebug) ==
  IF m.kind = "bounds" THEN Bounds_mutate(m.type, c[G][m.bounds], x, ndebug)
  ELSE IF m.kind = "subgenome"
    THEN {[v |-> r.g, st |-> r.st] : r \in EDNA_mutate(c, m.type, x, ndebug)}
  ELSE IF m.type = "string"
    THEN {[v |-> Append(x, ch), st |-> "ok"] : ch \in {k \in Chars : islower(k)}}
  ELSE IF x = <<>> THEN {[v |-> x, st |-> "throws"]}
  ELSE UNION {{[v |-> [x EXCEPT ![i] = r.g], st |-> r.st] :
                 r \in EDNA_mutate(c, "InternalTrivial", x[i], ndebug)} :
                i \in 1..Len(x)}

\* mutate that checks the whole object once the field is mutated
EDNA_mutate_check(c, G, object, ndebug) ==
  UNION {{[g     |-> EDNA_check(c, G, [object EXCEPT ![name] = r.v]).g,
           field |-> name, st |-> r.st] :
            r \in Manager_mutate(c, G, ManagerOf(G, name), object[name], ndebug)} :
           name \in pickOne(c[G].mutationRates)}

\* static void EDNA::mutate (G &object, Dice &dice), mutateExtension being
\* the default: the outcomes [g, field, st]
EDNA_mutate(c, G, object, ndebug) ==
  UNION {{[g     |-> [object EXCEPT ![name] = r.v],
           field |-> name, st |-> r.st] :
            r \in Manager_mutate(c, G, ManagerOf(G, name), object[name], ndebug)} :
           name \in pickOne(c[G].mutationRates)}

RECURSIVE EDNA_cross(_, _, _, _, _)

\* the values d.toss(l[i], r[i]) can store in res[i]; an element of rhs read
\* past its end is whatever the memory holds
VectorFunctor_cross(l, r) ==
  {res \in [1..Len(l) -> InternalTrivials] :
     \A i \in 1..Len(l) : i <= Len(r) => res[i] \in {l[i], r[i]}}

\* cross of an array that tosses the coin for every element
Manager_cross_elements(c, m, l, r, ndebug) ==
  IF m.kind = "bounds"
    THEN IF IsArray(m.type)
           THEN {[v |-> a, st |-> "ok"] :
                   a \in {b \in [1..ASize -> {l[i] : i \in 1..ASize}
                                             \cup {r[i] : i \in 1..ASize}] :
                            \A i \in 1..ASize : b[i] \in {l[i], r[i]}}}
           ELSE {[v |-> l, st |-> "ok"], [v |-> r, st |-> "ok"]}
  ELSE IF m.kind = "subgenome"
    THEN {[v |-> x.g, st |-> x.st] : x \in EDNA_cross(c, m.type, l, r, ndebug)}
  ELSE IF m.type = "string"
    THEN {[v |-> SubSeq(l, 1, i) \o SubSeq(r, i + 1, Len(r)), st |-> "ok"] :
            i \in 0..StdMin(Len(l), Len(r))}
  ELSE IF Len(l) # Len(r) /\ ~ndebug THEN {[v |-> <<>>, st |-> "assert"]}
  ELSE {[v |-> x, st |-> "ok"] : x \in VectorFunctor_cross(l, r)}

\* manager.cross(lhs, rhs, res, dice) on the field values: the outcomes
\* [v, st].  A bounds-driven field takes d.toss(l, r); stringFunctor cuts both
\* strings at a drawn position; vectorFunctor asserts equal sizes and tosses
\* element by element; a subgenome forwards to T::cross.
Manager_cross(c, m, l, r, ndebug) ==
  IF m.kind = "bounds"
    THEN {[v |-> l, st |-> "ok"], [v |-> r, st |-> "ok"]}
  ELSE IF m.kind = "subgenome"
    THEN {[v |-> x.g, st |-> x.st] : x \in EDNA_cross(c, m.type, l, r, ndebug)}
  ELSE IF m.type = "string"
    THEN {[v |-> SubSeq(l, 1, i) \o SubSeq(r, i + 1, Len(r)), st |-> "ok"] :
            i \in 0..StdMin(Len(l), Len(r))}
  ELSE IF Len(l) # Len(r) /\ ~ndebug THEN {[v |-> <<>>, st |-> "assert"]}
  ELSE {[v |-> x, st |-> "ok"] : x \in VectorFunctor_cross(l, r)}

\* static G EDNA::cross (const G &lhs, const G &rhs, Dice &dice),
\* crossExtension being the default: G res, then every manager stores its
\* field of res; the outcomes [g, st]
EDNA_cross(c, G, lhs, rhs, ndebug) ==
  LET R == Registry(G)
      RECURSIVE Loop(_, _)
      Loop(i, S) ==
        IF i > Len(R) THEN S
        ELSE Loop(i + 1,
               {o \in S : o.st # "ok"} \cup
               UNION {{[g  |-> [o.g EXCEPT ![R[i].name] = x.v], st |-> x.st] :
                         x \in Manager_cross(c, R[i], lhs[R[i].name],
                                             rhs[R[i].name], ndebug)} :
                        o \in {q \in S : q.st = "ok"}})
  IN  Loop(1, {[g |-> BaseGenome(G), st |-> "ok"]})

\* the record of an evolutionary operation
NoEvol(l, r) ==
  [op |-> "init", lhs |-> l, rhs |-> r, res |-> l, field |-> "", st |-> "ok"]

InitEvolve ==
  /\ NDEBUG \in BOOLEAN
  /\ T = "int"
  /\ bounds = [min |-> 1, max |-> 1]
  /\ v = 1
  /\ last = NoOp(1)
  /\ aborted = FALSE
  /\ ExtIdle
  /\ Genome \in GenomeTypes
  /\ conf \in {ConfigMR(b, TestWeights, TestRates) : b \in BoundsConfigs}
            \cup {ConfigMR(WideBounds, TestWeights, mr) : mr \in RateConfigs}
  /\ g1 \in Samples(Genome)
  /\ g2 \in {BaseGenome(Genome), OtherGenome(Genome)}
  /\ json = JNull
  /\ out = NoEvol(g1, g2)

\* g1.mutate(dice)
GenomeMutate ==
  /\ out.op = "init"
  /\ \E r \in EDNA_mutate(conf, Genome, g1, NDEBUG) :
       /\ g1' = r.g
       /\ out' = [NoEvol(g1, g2) EXCEPT !.op = "mutate", !.field = r.field,
                                        !.st = r.st]
  /\ UNCHANGED <<Genome, conf, g2, json>>
  /\ UNCHANGED fieldVars
  /\ UNCHANGED extVars

\* cross(g1, g2, dice)
GenomeCross ==
  /\ out.op = "init"
  /\ \E r \in EDNA_cross(conf, Genome, g1, g2, NDEBUG) :
       out' = [NoEvol(g1, g2) EXCEPT !.op = "cross", !.res = r.g, !.st = r.st]
  /\ UNCHANGED <<Genome, conf, g1, g2, json>>
  /\ UNCHANGED fieldVars
  /\ UNCHANGED extVars

NextEvolve == GenomeMutate \/ GenomeCross

SpecEvolve == InitEvolve /\ [][NextEvolve]_vars

\* the bounds-driven fields of a genome type
BoundsFields(G) ==
  {Registry(G)[i].name : i \in {k \in 1..Len(Registry(G)) :
                                  Registry(G)[k].kind = "bounds"}}

\* C13: the genome cross returns holds, in every bounds-driven field, either
\* lhs's or rhs's value of that field as a whole, whatever the coin tosses;
\* lhs and rhs are unchanged by the call.
C13_CrossTakesWholeValues ==
  (out.op = "cross" /\ out.st = "ok") =>
    /\ \A f \in BoundsFields(Genome) : out.res[f] \in {out.lhs[f], out.rhs[f]}
    /\ out.lhs = out.rhs =>
         \A f \in BoundsFields(Genome) : out.res[f] = out.lhs[f]
    /\ g1 = out.lhs /\ g2 = out.rhs

C13_Witness ==
  /\ out.op = "cross" /\ out.st = "ok" /\ Genome = "External"
  /\ out.lhs.arrayField # out.rhs.arrayField
  /\ out.res.arrayField = out.rhs.arrayField
  /\ out.res.intField = out.lhs.intField
  /\ out.lhs.intField # out.rhs.intField

\* C16: mutate selects a field that is a key of MutationRates with a
\* strictly positive rate, as long as some rate is positive; with the
\* single-entry map {floatField: 1} it selects floatField.
C16_MutatePicksPositiveRate ==
  (/\ out.op = "mutate"
   /\ \E k \in DOMAIN conf[Genome].mutationRates :
        conf[Genome].mutationRates[k] > 0) =>
    /\ out.field \in DOMAIN conf[Genome].mutationRates
    /\ conf[Genome].mutationRates[out.field] > 0
    /\ conf[Genome].mutationRates = [floatField |-> 1] => out.field = "floatField"

C16_Witness ==
  /\ out.op = "mutate" /\ Genome = "External"
  /\ conf.External.mutationRates.intField = 0
  /\ conf.External.mutationRates.arrayField = 0
  /\ conf.External.mutationRates.enumField > 0
  /\ out.field = "enumField"

\* C17: every registered field other than the one selected holds the same
\* value after mutate as before, and within a selected array field at most
\* one element differs.
C17_MutateAltersOneField ==
  out.op = "mutate" =>
    /\ \A f \in FieldNames(Genome) \ {out.field} : g1[f] = out.lhs[f]
    /\ out.field = "arrayField" =>
         Cardinality({i \in 1..ASize :
                        g1.arrayField[i] # out.lhs.arrayField[i]}) <= 1

C17_Witness ==
  /\ out.op = "mutate" /\ Genome = "External" /\ out.field = "arrayField"
  /\ out.st = "ok"
  /\ Cardinality({i \in 1..ASize :
                    g1.arrayField[i] # out.lhs.arrayField[i]}) = 1
  /\ out.lhs.intField \notin 1..MaxBound

-----------------------------------------------------------------------------
(* Random generation: G::random(dice) with seeded dice.  The engine of a   *)
(* dice is a deterministic function of its seed and of the number of       *)
(* values drawn so far; a seed of the model is the cycle of raw values the *)
(* engine produces                                                         *)

\* the engine repeats its raw values with period Period
Period == 2

\* a raw value of the engine is one of 0..RawMax
RawMax == 2

\* a dice is used at most MaxUse times before random is called on it
MaxUse == 1

Seeds == [1..Period -> 0..RawMax]

\* FastDice (Seed_t seed)
FastDice(seed) == [seed |-> seed, n |-> 0]

\* RNG_t::operator(): the raw value and the engine advanced by one
RNG_raw(d) == d.seed[(d.n % Period) + 1]

RNG_advance(d) == [d EXCEPT !.n = d.n + 1]

\* dice(lower, upper) for integers: throws when lower > upper, otherwise a
\* value of [lower, upper] from std::uniform_int_distribution
Dice_int(d, lower, upper) ==
  IF lower > upper THEN [v |-> lower, dice |-> d, st |-> "throws"]
  ELSE [v |-> lower + (RNG_raw(d) % (upper - lower + 1)),
        dice |-> RNG_advance(d), st |-> "ok"]

\* dice(lower, upper) for decimals: throws when lower > upper, returns lower
\* without a draw when lower == upper, otherwise a value of [lower, upper[
Dice_float(d, lower, upper) ==
  IF lower > upper THEN [v |-> lower, dice |-> d, st |-> "throws"]
  ELSE IF lower = upper THEN [v |-> lower, dice |-> d, st |-> "ok"]
  ELSE [v |-> lower + (RNG_raw(d) % (upper - lower)),
        dice |-> RNG_advance(d), st |-> "ok"]

\* Bounds (T min, T max): no difference between absolute and initial extrema
WithRnd(b) ==
  [p \in DOMAIN b |-> [min |-> b[p].min, rndMin |-> b[p].min,
                       rndMax |-> b[p].max, max |-> b[p].max]]

\* T Bounds::rand (Dice &dice) const, by value category: the value, the dice
\* after the draws and whether the dice threw
Bounds_rand(t, b, d) ==
  IF IsArray(t)
    THEN LET RECURSIVE Loop(_, _)
             Loop(i, acc) ==
               IF i > ASize \/ acc.st # "ok" THEN acc
               ELSE LET r == Dice_float(acc.dice, b.rndMin[i], b.rndMax[i])
                    IN  Loop(i + 1, [v |-> [acc.v EXCEPT ![i] = r.v],
                                     dice |-> r.dice, st |-> r.st])
         IN  Loop(1, [v |-> b.rndMin, dice |-> d, st |-> "ok"])
  ELSE IF t = "float" THEN Dice_float(d, b.rndMin, b.rndMax)
  ELSE Dice_int(d, b.rndMin, b.rndMax)

\* G tmp: the fields the constructor of External leaves uninitialised hold
\* whatever the memory holds (junk)
NewGenome(G, junk) ==
  IF G = "External"
    THEN [arrayField |-> junk.arrayField, enumField |-> junk.enumField,
          intField |-> junk.intField,
          recField |-> DefaultGenome("InternalComplex"), vectorField |-> <<>>]
    ELSE DefaultGenome(G)

RECURSIVE EDNA_random(_, _, _, _)

\* manager.random(object, dice), by class of manager: stringFunctor returns
\* dice(1u,2u) characters '#', vectorFunctor two random InternalTrivial, a
\* subgenome forwards to T::random
Manager_random(c, G, m, d, junk) ==
  IF m.kind = "bounds" THEN Bounds_rand(m.type, c[G][m.bounds], d)
  ELSE IF m.kind = "subgenome"
    THEN LET r == EDNA_random(c, m.type, d, junk)
         IN  [v |-> r.g, dice |-> r.dice, st |-> r.st]
  ELSE IF m.type = "string"
    THEN LET r == Dice_int(d, 1, 2)
         IN  [v |-> [i \in 1..r.v |-> 35], dice |-> r.dice, st |-> r.st]
  ELSE LET a == EDNA_random(c, "InternalTrivial", d, junk)
           b == EDNA_random(c, "InternalTrivial", a.dice, junk)
       IN  [v |-> <<a.g, b.g>>, dice |-> b.dice,
            st |-> IF a.st # "ok" THEN a.st ELSE b.st]

\* random that leaves the bounds-driven fields as constructed
EDNA_random_functorsOnly(c, G, d, junk) ==
  LET R == Registry(G)
      RECURSIVE Loop(_, _)
      Loop(i, acc) ==
        IF i > Len(R) \/ acc.st # "ok" THEN acc
        ELSE IF R[i].kind = "bounds" THEN Loop(i + 1, acc)
        ELSE LET r == Manager_random(c, G, R[i], acc.dice, junk)
             IN  Loop(i + 1, [g |-> [acc.g EXCEPT ![R[i].name] = r.v],
                              dice |-> r.dice, st |-> r.st])
  IN  Loop(1, [g |-> NewGenome(G, junk), dice |-> d, st |-> "ok"])

\* static G EDNA::random (Dice &dice), randomExtension being the default
EDNA_random(c, G, d, junk) ==
  LET R == Registry(G)
      RECURSIVE Loop(_, _)
      Loop(i, acc) ==
        IF i > Len(R) \/ acc.st # "ok" THEN acc
        ELSE LET r == Manager_random(c, G, R[i], acc.dice, junk)
             IN  Loop(i + 1, [g |-> [acc.g EXCEPT ![R[i].name] = r.v],
                              dice |-> r.dice, st |-> r.st])
  IN  Loop(1, [g |-> NewGenome(G, junk), dice |-> d, st |-> "ok"])

\* the record of the random calls: for each dice, the number of values it
\* had produced when random was called on it (-1: not called yet)
NoRandom == [op |-> "init", at |-> [k \in 1..2 |-> -1], st |-> "ok"]

InitRandom ==
  /\ SysIdle
  /\ FieldIdle
  /\ registry = <<>>
  /\ files = <<>>
  /\ dice \in [1..2 -> {FastDice(seed) : seed \in Seeds}]
  /\ Genome \in GenomeTypes
  /\ conf \in {Config(WithRnd(b), TestWeights) : b \in BoundsConfigs}
  /\ g1 = NewGenome(Genome, BaseGenome("External"))
  /\ g2 = NewGenome(Genome, BaseGenome("External"))
  /\ json = JNull
  /\ out = NoRandom

\* the dice k is used for something else: dice(.5)
UseDice ==
  /\ \E k \in 1..2 :
       /\ out.at[k] = -1
       /\ dice[k].n < MaxUse
       /\ dice' = [dice EXCEPT ![k] = RNG_advance(dice[k])]
       /\ out' = [out EXCEPT !.op = "use"]
  /\ UNCHANGED <<Genome, conf, g1, g2, json, registry, files>>
  /\ UNCHANGED sysVars
  /\ UNCHANGED fieldVars

\* g1 = G::random(dice[1])
Random1 ==
  /\ out.at[1] = -1
  /\ \E junk \in {BaseGenome("External"), OtherGenome("External")} :
       LET r == EDNA_random(conf, Genome, dice[1], junk)
       IN  /\ g1' = r.g
           /\ dice' = [dice EXCEPT ![1] = r.dice]
           /\ out' = [out EXCEPT !.op = "random", !.at[1] = dice[1].n,
                                 !.st = r.st]
  /\ UNCHANGED <<Genome, conf, g2, json, registry, files>>
  /\ UNCHANGED sysVars
  /\ UNCHANGED fieldVars

\* g2 = G::random(dice[2])
Random2 ==
  /\ out.at[2] = -1
  /\ \E junk \in {BaseGenome("External"), OtherGenome("External")} :
       LET r == EDNA_random(conf, Genome, dice[2], junk)
       IN  /\ g2' = r.g
           /\ dice' = [dice EXCEPT ![2] = r.dice]
           /\ out' = [out EXCEPT !.op = "random", !.at[2] = dice[2].n,
                                 !.st = r.st]
  /\ UNCHANGED <<Genome, conf, g1, json, registry, files>>
  /\ UNCHANGED sysVars
  /\ UNCHANGED fieldVars

NextRandom == UseDice \/ Random1 \/ Random2

SpecRandom == InitRandom /\ [][NextRandom]_vars

\* C12: two calls of random made with two dice seeded with the same seed and
\* not used before return genomes that are equal field by field.
C12_RandomDeterministic ==
  (/\ out.at[1] = 0 /\ out.at[2] = 0
   /\ dice[1].seed = dice[2].seed) =>
    /\ \A f \in FieldNames(Genome) : g1[f] = g2[f]
    /\ EDNA_equal(Genome, g1, g2)

C12_Witness ==
  /\ out.at[1] = 0 /\ out.at[2] = 0 /\ dice[1].seed = dice[2].seed
  /\ Genome = "External" /\ g1 = g2
  /\ g1.intField # 1 /\ Len(g1.vectorField) = 2
  /\ g1.vectorField[1] # g1.vectorField[2]

-----------------------------------------------------------------------------
(* Utilities: toFile / fromFile, aggregate, getField                       *)

\* json::dump: the text as a sequence of tokens.  A number is written with
\* its sign and its digits, the members of an object one after the other.
RECURSIVE Json_dump(_)
Json_dump(j) ==
  IF j.jt = "null" THEN <<[t |-> "null"]>>
  ELSE IF j.jt = "number"
    THEN <<[t |-> "num", neg |-> j.val < 0, abs |-> Abs(j.val)]>>
  ELSE IF j.jt = "string" THEN <<[t |-> "str", s |-> j.val]>>
  ELSE IF j.jt = "array"
    THEN LET RECURSIVE Elems(_, _)
             Elems(i, acc) ==
               IF i > Len(j.val) THEN acc
               ELSE Elems(i + 1,
                          acc \o (IF i > 1 THEN <<[t |-> ","]>> ELSE <<>>)
                              \o Json_dump(j.val[i]))
         IN  <<[t |-> "["]>> \o Elems(1, <<>>) \o <<[t |-> "]"]>>
  ELSE LET RECURSIVE Members(_, _)
           Members(keys, acc) ==
             IF keys = {} THEN acc
             ELSE LET k == CHOOSE x \in keys : TRUE
                  IN  Members(keys \ {k},
                        acc \o (IF acc # <<>> THEN <<[t |-> ","]>> ELSE <<>>)
                            \o <<[t |-> "key", k |-> k], [t |-> ":"]>>
                            \o Json_dump(j.val[k]))
       IN  <<[t |-> "{"]>> \o Members(DOMAIN j.val, <<>>) \o <<[t |-> "}"]>>

\* json::parse from token i on: the value read and the next token
RECURSIVE Json_parseAt(_, _)
Json_parseAt(toks, i) ==
  LET tk == toks[i]
  IN  IF tk.t = "null" THEN [val |-> JNull, next |-> i + 1]
      ELSE IF tk.t = "num"
        THEN [val |-> JNum(IF tk.neg THEN 0 - tk.abs ELSE tk.abs), next |-> i + 1]
      ELSE IF tk.t = "str" THEN [val |-> JStr(tk.s), next |-> i + 1]
      ELSE IF tk.t = "["
        THEN LET RECURSIVE Elems(_, _)
                 Elems(k, acc) ==
                   IF toks[k].t = "]" THEN [val |-> JArr(acc), next |-> k + 1]
                   ELSE LET r == Json_parseAt(toks, IF toks[k].t = "," THEN k + 1 ELSE k)
                        IN  Elems(r.next, Append(acc, r.val))
             IN  Elems(i + 1, <<>>)
      ELSE LET RECURSIVE Members(_, _)
               Members(k, acc) ==
                 IF toks[k].t = "}" THEN [val |-> JObj(acc), next |-> k + 1]
                 ELSE LET k2 == IF toks[k].t = "," THEN k + 1 ELSE k
                          r  == Json_parseAt(toks, k2 + 2)
                      IN  Members(r.next, JSet(acc, toks[k2].k, r.val))
           IN  Members(i + 1, <<>>)

\* json::parse(s)
Json_parse(toks) == Json_parseAt(toks, 1).val

\* a path: its stem and its extension
Paths ==
  {[stem |-> st, ext |-> e] : st \in {"g", "nodir/g"},
                              e \in {"", ".gnm", ".edna.json"}}

\* std::ofstream ofs (path); ofs.is_open(): the directory exists
Writable(path) == path.stem # "nodir/g"

\* virtual std::string extension (void) const
extension == ".edna.json"

\* the file system with text written at path
WriteFile(fs, path, text) ==
  [q \in (DOMAIN fs) \cup {path} |-> IF q = path THEN text ELSE fs[q]]

\* void toFile (const std::string &filepath, int indent): the extension is
\* appended to a path that has none; throws when the file cannot be opened;
\* otherwise check() and the dump is written
EDNA_toFile(c, G, g, fs, filepath) ==
  LET path == IF filepath.ext = "" THEN [filepath EXCEPT !.ext = extension]
              ELSE filepath
  IN  IF ~Writable(path) THEN [g |-> g, files |-> fs, thrown |-> TRUE]
      ELSE LET o == EDNA_check(c, G, g).g
           IN  [g |-> o, thrown |-> FALSE,
                files |-> WriteFile(fs, path, Json_dump(EDNA_to_json(G, o)))]

\* static G fromFile (const std::string &filepath): readAll throws when the
\* file cannot be opened; the text is parsed and G(j) built from it
EDNA_fromFile(c, G, fs, filepath) ==
  IF filepath \notin DOMAIN fs
    THEN [g |-> NewGenome(G, BaseGenome("External")), thrown |-> TRUE]
    ELSE LET r == EDNA_from_json(c, G, Json_parse(fs[filepath]),
                                 NewGenome(G, BaseGenome("External")))
         IN  [g |-> r.g, thrown |-> r.thrown]

\* the record of a utility call
NoCall ==
  [op |-> "init", arg |-> <<>>, saved |-> <<>>, thrown |-> FALSE,
   ret |-> <<>>, objects |-> <<>>, verbosity |-> 0]

\* the file system at start: empty, or a file an earlier run left
OldFiles(G) ==
  {<<>>} \cup
  {WriteFile(<<>>, q, Json_dump(EDNA_to_json(G, OtherGenome(G)))) :
     q \in {x \in Paths : Writable(x)}}

InitUtilities ==
  /\ SysIdle
  /\ FieldIdle
  /\ registry = <<>>
  /\ dice = <<>>
  /\ Genome \in GenomeTypes
  /\ conf \in {Config(b, TestWeights) : b \in BoundsConfigs}
  /\ g1 \in Samples(Genome)
  /\ g2 = BaseGenome(Genome)
  /\ json = JNull
  /\ files \in OldFiles(Genome)
  /\ out = NoCall

\* g1.toFile(p)
ToFile ==
  /\ out.op = "init"
  /\ \E p \in Paths :
       LET r == EDNA_toFile(conf, Genome, g1, files, p)
       IN  /\ g1' = r.g
           /\ files' = r.files
           /\ out' = [NoCall EXCEPT !.op = "toFile", !.arg = p,
                                    !.thrown = r.thrown,
                                    !.saved = IF r.thrown THEN <<>> ELSE p]
  /\ UNCHANGED <<Genome, conf, g2, json, registry, dice>>
  /\ UNCHANGED sysVars
  /\ UNCHANGED fieldVars

\* g2 = G::fromFile(p)
FromFile ==
  /\ out.op \in {"init", "toFile"}
  /\ \E p \in Paths :
       LET r == EDNA_fromFile(conf, Genome, files, p)
       IN  /\ g2' = IF r.thrown THEN g2 ELSE r.g
           /\ out' = [NoCall EXCEPT !.op = "fromFile", !.arg = p,
                                    !.thrown = r.thrown, !.saved = out.saved]
  /\ UNCHANGED <<Genome, conf, g1, json, registry, dice, files>>
  /\ UNCHANGED sysVars
  /\ UNCHANGED fieldVars

NextUtilities == ToFile \/ FromFile

SpecUtilities == InitUtilities /\ [][NextUtilities]_vars

\* C11: after g.toFile(p) returns, fromFile(p) with the same p returns a
\* genome equal to g under operator==.
C11_FileRoundTrip ==
  (out.op = "fromFile" /\ out.saved # <<>> /\ out.arg = out.saved) =>
    (~out.thrown /\ EDNA_equal(Genome, g2, g1))

-----------------------------------------------------------------------------
(* Utilities: aggregate and getField                                       *)

\* aggregate is given at most MaxObjects genomes
MaxObjects == 3

\* the verbosity of aggregate is drawn from 0..MaxVerbosity
MaxVerbosity == 2

\* the indices of a path are drawn from 0..MaxIndex
MaxIndex == 2

\* Aggregator for fundamental values without "verbosity = std::min(...)"
Aggregator_fundamental_unclamped(values, verbosity) ==
  LET n      == Len(values)
      sorted == SortSeq(values, LAMBDA a, b : a < b)
      idx    == [k \in 1..verbosity + 2 |->
                   StdMin(((k - 1) * (n - 1)) \div (verbosity + 1), n - 1)]
  IN  [idx |-> idx, val |-> [k \in 1..verbosity + 2 |-> sorted[idx[k] + 1]]]

\* Aggregator<T,O> for fundamental and enum T, on the values of n >= 2
\* objects: the values are sorted, verbosity is clamped to n - 2 and sample i
\* of 0..verbosity+1 is the value at index uint(i * (n-1) / float(verbosity+1))
Aggregator_fundamental(values, verbosity) ==
  LET n      == Len(values)
      sorted == SortSeq(values, LAMBDA a, b : a < b)
      verb   == StdMin(verbosity, n - 2)
      idx    == [k \in 1..verb + 2 |-> ((k - 1) * (n - 1)) \div (verb + 1)]
  IN  [idx |-> idx, val |-> [k \in 1..verb + 2 |-> sorted[idx[k] + 1]]]

RECURSIVE EDNA_aggregate(_, _, _)

\* manager.aggregate(os, objects, verbosity), by type of field: what is
\* printed, and whether a nested aggregate threw.  An array aggregates
\* element by element; the string aggregator of the example lists every
\* value; its vector aggregator aggregates, for each index, the elements of
\* the objects that have one; a subgenome forwards to T::aggregate.
Manager_aggregate(m, objects, verbosity) ==
  LET n == Len(objects)
      field(k) == objects[k][m.name]
  IN  IF m.type \in {"int", "Enum", "float"}
        THEN [thrown |-> FALSE,
              ret |-> Aggregator_fundamental([k \in 1..n |-> field(k)], verbosity)]
      ELSE IF m.type = "array<float>"
        THEN [thrown |-> FALSE,
              ret |-> [i \in 1..ASize |->
                         Aggregator_fundamental([k \in 1..n |-> field(k)[i]],
                                                verbosity)]]
      ELSE IF m.type = "string"
        THEN [thrown |-> FALSE, ret |-> [k \in 1..n |-> field(k)]]
      ELSE IF m.type = "vector<InternalTrivial>"
        THEN LET max_size == CHOOSE x \in 0..MaxVec + 1 :
                               /\ \A k \in 1..n : Len(field(k)) <= x
                               /\ x = 0 \/ \E k \in 1..n : Len(field(k)) = x
                 slice(i) == SelectSeq([k \in 1..n |-> field(k)],
                                       LAMBDA e : Len(e) >= i)
                 sub(i)   == EDNA_aggregate("InternalTrivial",
                               [k \in 1..Len(slice(i)) |-> slice(i)[k][i]],
                               verbosity)
                 bad      == {i \in 1..max_size : sub(i).thrown}
                 upto     == IF bad = {} THEN max_size
                             ELSE CHOOSE i \in bad : \A k \in bad : i <= k
             IN  [thrown |-> bad # {},
                  ret |-> [i \in 1..upto |-> sub(i).ret]]
      ELSE LET r == EDNA_aggregate(m.type, [k \in 1..n |-> field(k)], verbosity)
           IN  [thrown |-> r.thrown, ret |-> r.ret]

\* static void EDNA::aggregate (os, objects, verbosity): throws when given
\* fewer than 2 objects; otherwise every manager prints in turn, until one
\* throws.  ret maps the fields reached to what was printed for them.
EDNA_aggregate(G, objects, verbosity) ==
  IF Len(objects) < 2 THEN [thrown |-> TRUE, ret |-> <<>>]
  ELSE LET R == Registry(G)
           RECURSIVE Loop(_, _)
           Loop(i, acc) ==
             IF i > Len(R) THEN [thrown |-> FALSE, ret |-> acc]
             ELSE LET r   == Manager_aggregate(R[i], objects, verbosity)
                      now == [f \in (DOMAIN acc) \cup {R[i].name} |->
                                IF f = R[i].name THEN r.ret ELSE acc[f]]
                  IN  IF r.thrown THEN [thrown |-> TRUE, ret |-> now]
                      ELSE Loop(i + 1, now)
       IN  Loop(1, <<>>)

\* a genome between BaseGenome and OtherGenome
MidGenome(g) ==
  IF g = "InternalTrivial" THEN [floatField |-> 0 - FB]
  ELSE IF g = "InternalComplex" THEN [stringField |-> <<35>>]
  ELSE [arrayField |-> [i \in 1..ASize |-> IF i = 1 THEN AB ELSE 0],
        enumField |-> 1, intField |-> 2,
        recField |-> [stringField |-> <<35>>],
        vectorField |-> <<[floatField |-> 0]>>]

\* the tokens of a path: a name, an index, '.', '[' and ']'
Nm(str) == [t |-> "name", x |-> str]

Ix(n) == [t |-> "num", n |-> n]

Dot == [t |-> ".", x |-> "."]

LB == [t |-> "[", x |-> "["]

RB == [t |-> "]", x |-> "]"]

\* the string form operator<< gives a value: an enum prints as its integer
StringForm(t, x) == [fmt |-> IF t = "Enum" THEN "int" ELSE t, text |-> x]

\* Extractor for containers that reads the element whatever the index
Extractor_container_unchecked(value, field, junk) ==
  IF field # <<>> /\ field[1].t = "["
    THEN LET parsed == Len(field) >= 2 /\ field[2].t = "num"
             index  == IF parsed THEN field[2].n ELSE 0
             sub    == IF parsed /\ Len(field) >= 3
                         THEN SubSeq(field, 4, Len(field)) ELSE <<>>
         IN  [whole |-> FALSE, thrown |-> FALSE, sub |-> sub,
              elem |-> IF index < Len(value) THEN value[index + 1] ELSE junk]
    ELSE [whole |-> TRUE, thrown |-> FALSE, sub |-> <<>>, elem |-> junk]

\* Extractor<T> for arrays and vectors: a field that starts with '[' is read
\* as '[' index ']' subfield ("ss >> c >> index >> c >> subfield"); an
\* index that is not smaller than the size throws; otherwise the element
\* is extracted with the subfield.  Any other field yields the container.
Extractor_container(value, field, junk) ==
  IF field # <<>> /\ field[1].t = "["
    THEN LET parsed == Len(field) >= 2 /\ field[2].t = "num"
             index  == IF parsed THEN field[2].n ELSE 0
             sub    == IF parsed /\ Len(field) >= 3
                         THEN SubSeq(field, 4, Len(field)) ELSE <<>>
         IN  IF Len(value) <= index
               THEN [whole |-> FALSE, thrown |-> TRUE, sub |-> sub, elem |-> junk]
               ELSE [whole |-> FALSE, thrown |-> FALSE, sub |-> sub,
                     elem |-> value[index + 1]]
    ELSE [whole |-> TRUE, thrown |-> FALSE, sub |-> <<>>, elem |-> junk]

RECURSIVE EDNA_getField(_, _, _)

\* Extractor<T>()(value, field), by type of value: a fundamental or enum
\* value throws on a non-empty field; the string extractor of the example
\* returns the string; a genome forwards to T::getField
Extractor(type, value, field) ==
  IF type \in {"int", "Enum", "float"}
    THEN IF field # <<>> THEN [thrown |-> TRUE, ret |-> <<>>]
         ELSE [thrown |-> FALSE, ret |-> StringForm(type, value)]
  ELSE IF type = "string" THEN [thrown |-> FALSE, ret |-> StringForm(type, value)]
  ELSE IF type \in {"array<float>", "vector<InternalTrivial>"}
    THEN LET e == Extractor_container(value, field,
                    IF type = "array<float>" THEN 0
                    ELSE DefaultGenome("InternalTrivial"))
         IN  IF e.whole THEN [thrown |-> FALSE, ret |-> StringForm(type, value)]
             ELSE IF e.thrown THEN [thrown |-> TRUE, ret |-> <<>>]
             ELSE IF type = "array<float>"
               THEN IF e.sub # <<>> THEN [thrown |-> TRUE, ret |-> <<>>]
                    ELSE [thrown |-> FALSE, ret |-> StringForm("float", e.elem)]
             ELSE EDNA_getField("InternalTrivial", e.elem, e.sub)
  ELSE EDNA_getField(type, value, field)

\* static std::string getField (const G &object, const std::string &field):
\* a leading '.' is dropped, the field is cut at its first '[' or '.', the
\* head is looked up in the registry (throws when it is no key) and the
\* manager extracts the rest, less a leading '.'
EDNA_getField(G, object, field) ==
  LET f0   == IF field # <<>> /\ field[1].t = "." THEN Tail(field) ELSE field
      cuts == {k \in 1..Len(f0) : f0[k].t \in {"[", "."}}
      at   == IF cuts = {} THEN Len(f0) + 1
              ELSE CHOOSE k \in cuts : \A q \in cuts : k <= q
      localField == SubSeq(f0, 1, at - 1)
      sub0 == SubSeq(f0, at, Len(f0))
      subField == IF sub0 # <<>> /\ sub0[1].t = "." THEN Tail(sub0) ELSE sub0
      found == /\ Len(localField) = 1
               /\ localField[1].t = "name"
               /\ localField[1].x \in FieldNames(G)
  IN  IF ~found THEN [thrown |-> TRUE, ret |-> <<>>]
      ELSE LET m == ManagerOf(G, localField[1].x)
           IN  Extractor(m.type, object[m.name], subField)

\* the paths of the model: an optional '.', a head, and a suffix
PathHeads(G) == {<<Nm(f)>> : f \in FieldNames(G) \cup {"nope"}}

PathSuffixes ==
  {<<>>, <<Dot>>}
  \cup {<<Dot, Nm(x)>> : x \in {"floatField", "nope"}}
  \cup {<<LB, Ix(i), RB>> : i \in 0..MaxIndex}
  \cup {<<LB, Ix(i), RB, Dot, Nm(x)>> : i \in 0..MaxIndex,
                                         x \in {"floatField", "nope"}}
  \cup {<<LB, Ix(i), RB, Dot, Nm("floatField"), Dot, Nm("nope")>> : i \in 0..MaxIndex}
  \cup {<<LB, Ix(i), RB, LB, Ix(0), RB>> : i \in 0..MaxIndex}

FieldPaths(G) ==
  {lead \o h \o sfx : lead \in {<<>>, <<Dot>>}, h \in PathHeads(G),
                      sfx \in PathSuffixes}

InitInspect ==
  /\ FieldIdle
  /\ ExtIdle
  /\ Genome \in GenomeTypes
  /\ conf = Config(WideBounds, TestWeights)
  /\ g1 \in Samples(Genome) \cup {OtherGenome(Genome), MidGenome(Genome)}
  /\ g2 = BaseGenome(Genome)
  /\ json = JNull
  /\ out = NoCall

\* g1.getField(path)
GetField ==
  /\ out.op = "init"
  /\ \E path \in FieldPaths(Genome) :
       LET r == EDNA_getField(Genome, g1, path)
       IN  out' = [NoCall EXCEPT !.op = "getField", !.arg = path,
                                 !.thrown = r.thrown, !.ret = r.ret]
  /\ UNCHANGED <<Genome, conf, g1, g2, json>>
  /\ UNCHANGED fieldVars
  /\ UNCHANGED extVars

\* G::aggregate(os, objects, verbosity)
Aggregate ==
  /\ out.op = "init"
  /\ \E n \in 0..MaxObjects, verbosity \in 0..MaxVerbosity :
       \E objects \in [1..n -> {BaseGenome(Genome), MidGenome(Genome),
                                OtherGenome(Genome)}] :
         LET r == EDNA_aggregate(Genome, objects, verbosity)
         IN  out' = [NoCall EXCEPT !.op = "aggregate", !.objects = objects,
                                   !.verbosity = verbosity,
                                   !.thrown = r.thrown, !.ret = r.ret]
  /\ UNCHANGED <<Genome, conf, g1, g2, json>>
  /\ UNCHANGED fieldVars
  /\ UNCHANGED extVars

NextInspect == GetField \/ Aggregate

SpecInspect == InitInspect /\ [][NextInspect]_vars

\* the fields of a genome type that hold a fundamental or enum value
FundamentalFields(G) ==
  {Registry(G)[i].name : i \in {k \in 1..Len(Registry(G)) :
                                  Registry(G)[k].type \in {"int", "Enum", "float"}}}

\* C14: aggregate throws when given fewer than 2 genomes; given n >= 2 it
\* prints for each fundamental field exactly min(verbosity + 2, n) samples of
\* the sorted values, every sample index lies in [0, n-1], the first sample
\* is the minimum and the last the maximum.
C14_AggregateSamples ==
  out.op = "aggregate" =>
    LET n == Len(out.objects)
    IN  /\ n < 2 => (out.thrown /\ out.ret = <<>>)
        /\ n >= 2 =>
             \A f \in FundamentalFields(Genome) :
               /\ f \in DOMAIN out.ret
               /\ LET s == out.ret[f]
                      values == {out.objects[k][f] : k \in 1..n}
                  IN  /\ Len(s.val) = StdMin(out.verbosity + 2, n)
                      /\ Len(s.idx) = Len(s.val)
                      /\ \A k \in 1..Len(s.idx) : s.idx[k] \in 0..n - 1
                      /\ \A x \in values : s.val[1] <= x
                      /\ \A x \in values : x <= s.val[Len(s.val)]
                      /\ \A k \in 1..Len(s.val) : s.val[k] \in values
                      /\ \A k \in 1..Len(s.val) - 1 : s.val[k] <= s.val[k + 1]

C14_Witness ==
  /\ out.op = "aggregate" /\ Genome = "External" /\ Len(out.objects) = 3
  /\ out.verbosity = MaxVerbosity
  /\ "intField" \in DOMAIN out.ret
  /\ out.ret.intField.val = <<1, 2, MaxBound>>

\* the head segment of a path, less a leading '.'
PathHead(path) ==
  IF path # <<>> /\ path[1].t = "." THEN Tail(path) ELSE path

-----------------------------------------------------------------------------
(* Genome level: construction and check                                    *)

NoCheck(g) == [op |-> "init", pre |-> g, ret |-> TRUE, fresh |-> FALSE]

\* a genome with two fields out of range: arrayField and, nested, recField
TwoFaults(g) ==
  IF g = "External"
    THEN [BaseGenome(g) EXCEPT !.arrayField = [i \in 1..ASize |-> -1],
                               !.recField = [stringField |-> <<65>>]]
    ELSE OtherGenome(g)

InitCheck ==
  /\ FieldIdle
  /\ ExtIdle
  /\ Genome \in GenomeTypes
  /\ conf \in {Config(b, TestWeights) : b \in BoundsConfigs}
  /\ g1 \in Samples(Genome) \cup {OtherGenome(Genome), TwoFaults(Genome)}
  /\ g2 = BaseGenome(Genome)
  /\ json = JNull
  /\ out = NoCheck(g1)

\* G g: the default constructor; int, Enum and array fields of External are
\* left uninitialised and hold whatever the memory holds
Construct ==
  /\ out.op = "init"
  /\ \E junk \in Samples("External") :
       /\ g1' = NewGenome(Genome, junk)
       /\ out' = [NoCheck(NewGenome(Genome, junk)) EXCEPT !.op = "construct",
                                                         !.fresh = TRUE]
  /\ UNCHANGED <<Genome, conf, g2, json>>
  /\ UNCHANGED fieldVars
  /\ UNCHANGED extVars

\* g1.check()
GenomeCheck ==
  /\ LET r == EDNA_check(conf, Genome, g1)
     IN  /\ g1' = r.g
         /\ out' = [out EXCEPT !.op = "check", !.pre = g1, !.ret = r.ok]
  /\ UNCHANGED <<Genome, conf, g2, json>>
  /\ UNCHANGED fieldVars
  /\ UNCHANGED extVars

NextCheck == Construct \/ GenomeCheck

SpecCheck == InitCheck /\ [][NextCheck]_vars

\* C21: a default-constructed instance of the genome whose intField has
\* bounds [1, max], with intField at 0 (and the other fields at zero),
\* passes check(): check() returns true.
C21_DefaultPassesCheck ==
  (/\ out.op = "check" /\ out.fresh /\ Genome = "External"
   /\ out.pre.intField = 0 /\ out.pre.enumField = 0
   /\ out.pre.arrayField = [i \in 1..ASize |-> 0]) => out.ret

\* C28: check(object) runs the check of every registered field, also after
\* an earlier field failed, and returns true iff every field's check
\* returned true; the check of a subgenome field is the nested genome's
\* check: a value out of range inside recField is corrected and makes the
\* outer check return false.
C28_CheckRunsEveryField ==
  out.op = "check" =>
    LET R == Registry(Genome)
        each(i) == Manager_check(conf, Genome, R[i], out.pre[R[i].name])
    IN  /\ \A i \in 1..Len(R) : g1[R[i].name] = each(i).v
        /\ out.ret = (\A i \in 1..Len(R) : each(i).ok)
        /\ Genome = "External" =>
             LET nested == EDNA_check(conf, "InternalComplex", out.pre.recField)
             IN  /\ g1.recField = nested.g
                 /\ ~nested.ok => ~out.ret
                 /\ \A k \in 1..Len(g1.recField.stringField) :
                      islower(g1.recField.stringField[k])
                 /\ (\E k \in 1..Len(out.pre.recField.stringField) :
                       ~islower(out.pre.recField.stringField[k])) => ~out.ret

C28_Witness ==
  /\ out.op = "check" /\ Genome = "External" /\ ~out.ret
  /\ out.pre = TwoFaults("External")
  /\ g1.recField.stringField = <<97>>
  /\ g1.arrayField[1] = conf.External.arrayFieldBounds.min[1]

-----------------------------------------------------------------------------
(* Bounds objects: the constructors, operator>>, from_json and rand         *)

LP == [t |-> "(", x |-> "("]

RP == [t |-> ")", x |-> ")"]

\* the values a member of a Bounds<T> is given in the model
BoundsMember(t) ==
  IF IsArray(t) THEN [1..ASize -> 0..AB] ELSE ScalarBoundsOf(t)

\* a <= b: operator<= of T; for std::array it compares lexicographically
Leq(t, a, b) ==
  IF IsArray(t)
    THEN \/ a = b
         \/ \E i \in 1..ASize : /\ a[i] < b[i]
                                /\ \A k \in 1..i - 1 : a[k] = b[k]
    ELSE a <= b

\* Bounds (T min, T rndMin, T rndMax, T max): the members are set, then
\* assert(min <= rndMin && rndMin <= rndMax && rndMax <= max) runs unless
\* the build defines NDEBUG
Bounds_ctor(t, min, rndMin, rndMax, max, ndebug) ==
  [b  |-> [min |-> min, rndMin |-> rndMin, rndMax |-> rndMax, max |-> max],
   st |-> IF ndebug \/ (Leq(t, min, rndMin) /\ Leq(t, rndMin, rndMax)
                         /\ Leq(t, rndMax, max))
            THEN "ok" ELSE "assert"]

\* operator<< of a member: a number, or '[' numbers ']' for an array
MemberText(t, x) ==
  IF IsArray(t) THEN <<LB>> \o [i \in 1..ASize |-> Ix(x[i])] \o <<RB>>
  ELSE <<Ix(x)>>

\* operator<< of a Bounds: "(" min rndMin rndMax max stddev ")"
Bounds_text(t, b) ==
  <<LP>> \o MemberText(t, b.min) \o MemberText(t, b.rndMin)
         \o MemberText(t, b.rndMax) \o MemberText(t, b.max)
         \o MemberText(t, IF IsArray(t) THEN [i \in 1..ASize |-> 0] ELSE 0)
         \o <<RP>>

\* is >> value for a member starting at token i: a number is read when the
\* token is one; an array reads a character, its elements and a character.
\* A failed extraction stores 0 and leaves the stream failed.
ReadMember(t, toks, i, old) ==
  IF IsArray(t)
    THEN LET have(k) == i + k <= Len(toks) /\ toks[i + k].t = "num"
             good    == {k \in 1..ASize : \A q \in 1..k : have(q)}
             fail    == i > Len(toks) \/ good # 1..ASize
                        \/ i + ASize + 1 > Len(toks)
         IN  [ok |-> ~fail,
              v  |-> [k \in 1..ASize |->
                        IF i > Len(toks) THEN old[k]
                        ELSE IF k \in good THEN toks[i + k].n
                        ELSE IF k - 1 \in good \cup {0} THEN 0 ELSE old[k]],
              next |-> i + ASize + 2]
    ELSE IF i <= Len(toks) /\ toks[i].t = "num"
           THEN [ok |-> TRUE, v |-> toks[i].n, next |-> i + 1]
           ELSE [ok |-> FALSE, v |-> 0, next |-> i]

\* friend std::istream& operator>> (std::istream& is, Bounds &b):
\* is >> junk >> b.min >> b.rndMin >> b.rndMax >> b.max >> b.stddev >> junk;
\* nothing compares the members.  Once an extraction failed the later ones
\* do nothing.
Bounds_read(t, b, toks) ==
  LET members == <<"min", "rndMin", "rndMax", "max">>
      RECURSIVE Loop(_, _)
      Loop(k, acc) ==
        IF k > Len(members) \/ ~acc.ok THEN acc
        ELSE LET r == ReadMember(t, toks, acc.i, acc.b[members[k]])
             IN  Loop(k + 1, [b  |-> [acc.b EXCEPT ![members[k]] = r.v],
                              i  |-> r.next, ok |-> r.ok])
      m  == Loop(1, [b |-> b, i |-> 2, ok |-> Len(toks) >= 1])
      sd == ReadMember(t, toks, m.i, IF IsArray(t) THEN [i \in 1..ASize |-> 0] ELSE 0)
  IN  [b |-> m.b, ok |-> m.ok /\ sd.ok /\ sd.next <= Len(toks)]

\* friend void from_json (const nlohmann::json &j, Bounds &b): the members
\* are taken from j[0..3] (stddev from j[4]); nothing compares them
Bounds_from_json(t, b, j) ==
  [min |-> j[1], rndMin |-> j[2], rndMax |-> j[3], max |-> j[4]]

\* the texts of the model: the text of any four members, the same cut after
\* its second member, and the same with a word for its second member
BoundsTexts(t) ==
  LET all == {Bounds_text(t, [min |-> a, rndMin |-> b, rndMax |-> c, max |-> d]) :
                a \in BoundsMember(t), b \in BoundsMember(t),
                c \in BoundsMember(t), d \in BoundsMember(t)}
      w   == IF IsArray(t) THEN ASize + 2 ELSE 1
  IN  all \cup {SubSeq(x, 1, 1 + 2 * w) : x \in all}
          \cup {[x EXCEPT ![2 + w] = Nm("nan")] : x \in all}

\* DEFINE_GENOME_FIELD_WITH_BOUNDS(T, field, alias, min, max): the bounds a
\* field definition constructs
DefinedBounds(t) ==
  LET lo == IF IsArray(t) THEN [i \in 1..ASize |-> 0]
            ELSE CHOOSE x \in ScalarBoundsOf(t) : \A y \in ScalarBoundsOf(t) : x <= y
      hi == IF IsArray(t) THEN [i \in 1..ASize |-> AB]
            ELSE CHOOSE x \in ScalarBoundsOf(t) : \A y \in ScalarBoundsOf(t) : y <= x
  IN  [min |-> lo, rndMin |-> lo, rndMax |-> hi, max |-> hi]

NoBounds == [op |-> "init", st |-> "ok", ok |-> TRUE]

InitBounds ==
  /\ NDEBUG \in BOOLEAN
  /\ T \in Categories
  /\ bounds = DefinedBounds(T)
  /\ v = DefinedBounds(T).min
  /\ last = NoBounds
  /\ aborted = FALSE
  /\ GenomeIdle
  /\ registry = <<>>
  /\ files = <<>>
  /\ SysIdle
  /\ dice = <<FastDice([i \in 1..Period |-> i % (RawMax + 1)])>>

\* bounds = Bounds<T>(min, rndMin, rndMax, max); the object of the model is
\* built once, by one of the three ways, and then used
BoundsConstruct ==
  /\ ~aborted
  /\ last.op = "init"
  /\ \E a \in BoundsMember(T), b \in BoundsMember(T),
        c \in BoundsMember(T), d \in BoundsMember(T) :
       LET r == Bounds_ctor(T, a, b, c, d, NDEBUG)
       IN  /\ bounds' = IF r.st = "ok" THEN r.b ELSE bounds
           /\ aborted' = (r.st = "assert")
           /\ last' = [NoBounds EXCEPT !.op = "ctor", !.st = r.st]
  /\ UNCHANGED <<NDEBUG, T, v>>
  /\ UNCHANGED genomeVars
  /\ UNCHANGED extVars

\* is >> bounds
BoundsRead ==
  /\ ~aborted
  /\ last.op = "init"
  /\ \E text \in BoundsTexts(T) :
       LET r == Bounds_read(T, bounds, text)
       IN  /\ bounds' = r.b
           /\ last' = [NoBounds EXCEPT !.op = "read", !.ok = r.ok]
  /\ UNCHANGED <<NDEBUG, T, v, aborted>>
  /\ UNCHANGED genomeVars
  /\ UNCHANGED extVars

\* bounds = j.get<Bounds<T>>()
BoundsFromJson ==
  /\ ~aborted
  /\ last.op = "init"
  /\ \E j \in {Append(m, m[1]) : m \in [1..4 -> BoundsMember(T)]} :
       /\ bounds' = Bounds_from_json(T, bounds, j)
       /\ last' = [NoBounds EXCEPT !.op = "from_json"]
  /\ UNCHANGED <<NDEBUG, T, v, aborted>>
  /\ UNCHANGED genomeVars
  /\ UNCHANGED extVars

\* v = bounds.rand(dice)
BoundsRand ==
  /\ ~aborted
  /\ dice[1].n <= MaxUse
  /\ LET r == Bounds_rand(T, bounds, dice[1])
     IN  /\ v' = IF r.st = "ok" THEN r.v ELSE v
         /\ dice' = <<r.dice>>
         /\ last' = [NoBounds EXCEPT !.op = "rand", !.st = r.st]
  /\ UNCHANGED <<NDEBUG, T, bounds, aborted>>
  /\ UNCHANGED genomeVars
  /\ UNCHANGED <<registry, files>>
  /\ UNCHANGED sysVars

NextBounds == BoundsConstruct \/ BoundsRead \/ BoundsFromJson \/ BoundsRand

SpecBounds == InitBounds /\ [][NextBounds]_vars

\* min <= rndMin <= rndMax <= max, element by element for an array
Ordered(t, b) ==
  IF IsArray(t)
    THEN \A i \in 1..ASize : /\ b.min[i] <= b.rndMin[i]
                             /\ b.rndMin[i] <= b.rndMax[i]
                             /\ b.rndMax[i] <= b.max[i]
    ELSE b.min <= b.rndMin /\ b.rndMin <= b.rndMax /\ b.rndMax <= b.max

\* C24: every Bounds value the program holds, built by a constructor, read
\* with operator>> or loaded with from_json, satisfies
\* min <= rndMin <= rndMax <= max, element by element for arrays, so that
\* rand never hands the dice a lower bound greater than the upper bound.
C24_BoundsOrdered ==
  ~aborted => (Ordered(T, bounds) /\ (last.op = "rand" => last.st = "ok"))

-----------------------------------------------------------------------------
(* Configuration: the ConfigValue objects of EDNAConfigFile<G>, their       *)
(* origins, and the operations that read them                               *)

\* enum IConfigValue::Origin
Origin_DEFAULT == 0

Origin_FILE == 1

Origin_LOAD == 2

Origin_ENVIRONMENT == 3

Origin_OVERRIDE == 4

Origin_CONSTANT == 5

Origin_ERROR == 10

\* the type T of the ConfigValue<T> declared under a name: a map for
\* mutationRates and distanceWeights, B<T> for the bounds of a field
ParamType(p) ==
  IF p = "intFieldBounds" THEN "int"
  ELSE IF p = "enumFieldBounds" THEN "Enum"
  ELSE IF p = "floatFieldBounds" THEN "float"
  ELSE IF p = "arrayFieldBounds" THEN "array<float>"
  ELSE "map"

\* PrettyReader<std::map<K,V>>: every line "key: value" of the text is
\* stored with map[key] = value into the map it is given; a value that does
\* not parse is stored as 0; the reader returns true at the end of the text
PrettyReader_map(map, lines) ==
  LET RECURSIVE Loop(_, _)
      Loop(i, m) ==
        IF i > Len(lines) THEN m
        ELSE Loop(i + 1,
                  [k \in (DOMAIN m) \cup {lines[i].key} |->
                     IF k = lines[i].key
                       THEN (IF lines[i].val.t = "num" THEN lines[i].val.n ELSE 0)
                       ELSE m[k]])
  IN  [ok |-> TRUE, v |-> Loop(1, map)]

\* PrettyReader<T>()(iss, tmp): the map reader, or operator>> of a Bounds
PrettyReader(type, value, text) ==
  IF type = "map" THEN PrettyReader_map(value, text)
  ELSE LET r == Bounds_read(type, value, text) IN [ok |-> r.ok, v |-> r.b]

\* bool ConfigValue::performInput (const std::string &s): a copy of the value
\* is handed to the reader and stored when the reader succeeded
ConfigValue_performInput(type, value, s) ==
  LET r == PrettyReader(type, value, s)
  IN  IF r.ok THEN [value |-> r.v, ret |-> TRUE]
      ELSE [value |-> value, ret |-> FALSE]

\* input that also accepts a value of the same origin
IConfigValue_input_sameOrigin(type, cv, s, o) ==
  IF cv.origin <= o
    THEN LET r == ConfigValue_performInput(type, cv.value, s)
         IN  [value |-> r.value, origin |-> IF r.ret THEN o ELSE Origin_ERROR]
    ELSE cv

\* bool IConfigValue::input (const std::string &s, Origin o): the value, the
\* origin after the call; it returns origin != ERROR
IConfigValue_input(type, cv, s, o) ==
  IF cv.origin < o
    THEN LET r == ConfigValue_performInput(type, cv.value, s)
         IN  [value |-> r.value, origin |-> IF r.ret THEN o ELSE Origin_ERROR]
    ELSE cv

\* T ConfigValue::overrideWith (T other)
ConfigValue_overrideWith(cv, other) ==
  IF cv.origin < Origin_OVERRIDE
    THEN [value |-> other, origin |-> Origin_OVERRIDE]
    ELSE cv

\* void ConfigValue::fromJson (const nlohmann::json &j)
ConfigValue_fromJson(cv, j) ==
  IF cv.origin < Origin_LOAD
    THEN [value |-> j, origin |-> Origin_LOAD]
    ELSE cv

\* the Bounds objects the inputs of the model describe: the defined one, a
\* narrower one, one with rndMin below min, one with rndMin above rndMax
SomeBounds(t) ==
  LET d == DefinedBounds(t)
  IN  {d,
       [d EXCEPT !.rndMin = d.max],
       [d EXCEPT !.min = d.max, !.rndMax = d.max],
       [d EXCEPT !.rndMin = d.max, !.rndMax = d.min]}

\* the maps the inputs of the model describe, on the fields of a genome type
\* and a name that is no field
SomeMaps(G) ==
  {[k \in K |-> r] : K \in {FieldNames(G), {"bogus"},
                            {CHOOSE f \in FieldNames(G) : TRUE}},
                     r \in {0, 2}}

\* the lines "key: value" that write a map
MapText(m) ==
  LET RECURSIVE Lines(_)
      Lines(K) ==
        IF K = {} THEN <<>>
        ELSE LET k == CHOOSE x \in K : TRUE
             IN  <<[key |-> k, val |-> Ix(m[k])]>> \o Lines(K \ {k})
  IN  Lines(DOMAIN m)

\* the values of the type of a parameter the model hands to overrideWith
\* and fromJson
ParamValues(G, p) ==
  IF ParamType(p) = "map" THEN SomeMaps(G) ELSE SomeBounds(ParamType(p))

\* the texts the model hands to input: the text of every such value, and
\* for a Bounds a text that does not parse
ParamTexts(G, p) ==
  IF ParamType(p) = "map"
    THEN {MapText(m) : m \in SomeMaps(G)}
         \cup {<<[key |-> "bogus", val |-> Nm("nan")]>>}
    ELSE {Bounds_text(ParamType(p), b) : b \in SomeBounds(ParamType(p))}
         \cup {<<LP, Nm("nan"), RP>>}

\* _iterator.at(fieldName) in mutate: std::out_of_range when the name drawn
\* from the mutation rates is no key of the registry
EDNA_mutate_at(c, G) ==
  {[field |-> name, thrown |-> name \notin FieldNames(G)] :
     name \in pickOne(c[G].mutationRates)}

\* _distanceWeights.get().at(get(it).name()) in distance: std::out_of_range
\* when a registered name is no key of the distance weights
EDNA_distance_at(c, G) ==
  \E name \in FieldNames(G) : name \notin DOMAIN c[G].distanceWeights

NoConf(p, cv) ==
  [op |-> "init", param |-> p, o |-> Origin_DEFAULT, text |-> <<>>, pre |-> cv,
   thrown |-> FALSE, st |-> "ok", field |-> ""]

\* the ConfigValue under a name, as the state holds it
ConfigValue(p) == [value |-> conf[Genome][p], origin |-> origin[p]]

InitConfig ==
  /\ FieldIdle
  /\ registry = <<>>
  /\ files = <<>>
  /\ pc = <<>>
  /\ mtx = 0
  /\ stream = <<>>
  /\ dice = <<FastDice([i \in 1..Period |-> i % (RawMax + 1)])>>
  /\ Genome \in GenomeTypes
  /\ conf = ConfigMR(WithRnd(WideBounds), TestWeights, TestRates)
  /\ origin = [p \in DOMAIN conf[Genome] |-> Origin_DEFAULT]
  /\ g1 = BaseGenome(Genome)
  /\ g2 = OtherGenome(Genome)
  /\ json = JNull
  /\ \E p \in DOMAIN conf[Genome] :
       out = NoConf(p, [value |-> conf[Genome][p], origin |-> Origin_DEFAULT])

\* value.input(text, o), as readConfig calls it with FILE for every line of
\* a configuration file and checkEnv with ENVIRONMENT
Input ==
  /\ \E text \in ParamTexts(Genome, out.param),
        o \in {Origin_FILE, Origin_ENVIRONMENT} :
       LET p == out.param
           r == IConfigValue_input(ParamType(p), ConfigValue(p), text, o)
       IN  /\ conf' = [conf EXCEPT ![Genome][p] = r.value]
           /\ origin' = [origin EXCEPT ![p] = r.origin]
           /\ out' = [NoConf(p, ConfigValue(p)) EXCEPT
                        !.op = "input", !.o = o, !.text = text]
  /\ UNCHANGED <<Genome, g1, g2, json>>
  /\ UNCHANGED fieldVars
  /\ UNCHANGED <<registry, dice, files, pc, mtx, stream>>

\* value.overrideWith(other)
OverrideWith ==
  /\ \E other \in ParamValues(Genome, out.param) :
       LET p == out.param
           r == ConfigValue_overrideWith(ConfigValue(p), other)
       IN  /\ conf' = [conf EXCEPT ![Genome][p] = r.value]
           /\ origin' = [origin EXCEPT ![p] = r.origin]
           /\ out' = [NoConf(p, ConfigValue(p)) EXCEPT
                        !.op = "overrideWith", !.o = Origin_OVERRIDE]
  /\ UNCHANGED <<Genome, g1, g2, json>>
  /\ UNCHANGED fieldVars
  /\ UNCHANGED <<registry, dice, files, pc, mtx, stream>>

\* value.fromJson(j), when a configuration is restored from a save file
LoadJson ==
  /\ \E j \in ParamValues(Genome, out.param) :
       LET p == out.param
           r == ConfigValue_fromJson(ConfigValue(p), j)
       IN  /\ conf' = [conf EXCEPT ![Genome][p] = r.value]
           /\ origin' = [origin EXCEPT ![p] = r.origin]
           /\ out' = [NoConf(p, ConfigValue(p)) EXCEPT
                        !.op = "fromJson", !.o = Origin_LOAD]
  /\ UNCHANGED <<Genome, g1, g2, json>>
  /\ UNCHANGED fieldVars
  /\ UNCHANGED <<registry, dice, files, pc, mtx, stream>>

\* g1.mutate(dice) under the configuration as it stands; the genome of the
\* model is mutated once
ConfMutate ==
  /\ g1 = BaseGenome(Genome)
  /\ \E a \in EDNA_mutate_at(conf, Genome) :
       IF a.thrown
         THEN /\ g1' = g1
              /\ out' = [NoConf(out.param, ConfigValue(out.param)) EXCEPT
                           !.op = "mutate", !.field = a.field,
                           !.thrown = TRUE]
         ELSE \E r \in Manager_mutate(conf, Genome, ManagerOf(Genome, a.field),
                                      g1[a.field], TRUE) :
                /\ g1' = [g1 EXCEPT ![a.field] = r.v]
                /\ out' = [NoConf(out.param, ConfigValue(out.param)) EXCEPT
                             !.op = "mutate", !.field = a.field, !.st = r.st]
  /\ UNCHANGED <<Genome, conf, g2, json>>
  /\ UNCHANGED fieldVars
  /\ UNCHANGED extVars

\* distance(g1, g2) under the configuration as it stands
ConfDistance ==
  /\ out' = [NoConf(out.param, ConfigValue(out.param)) EXCEPT
               !.op = "distance", !.thrown = EDNA_distance_at(conf, Genome)]
  /\ UNCHANGED <<Genome, conf, g1, g2, json>>
  /\ UNCHANGED fieldVars
  /\ UNCHANGED extVars

\* g1 = G::random(dice) under the configuration as it stands
ConfRandom ==
  /\ dice[1].n = 0
  /\ LET r == EDNA_random(conf, Genome, dice[1], BaseGenome("External"))
     IN  /\ g1' = r.g
         /\ dice' = <<r.dice>>
         /\ out' = [NoConf(out.param, ConfigValue(out.param)) EXCEPT
                      !.op = "random", !.st = r.st]
  /\ UNCHANGED <<Genome, conf, g2, json>>
  /\ UNCHANGED fieldVars
  /\ UNCHANGED <<registry, files>>
  /\ UNCHANGED sysVars

NextConfig ==
  Input \/ OverrideWith \/ LoadJson \/ ConfMutate \/ ConfDistance \/ ConfRandom

SpecConfig == InitConfig /\ [][NextConfig]_vars

C23_LookupSucceeds ==
  /\ pickOne(conf[Genome].mutationRates) \subseteq FieldNames(Genome)
  /\ FieldNames(Genome) \subseteq DOMAIN conf[Genome].distanceWeights
  /\ ~out.thrown

\* the value x lies within [lo, hi], element by element for an array
Within(t, x, lo, hi) ==
  IF IsArray(t) THEN \A i \in 1..ASize : lo[i] <= x[i] /\ x[i] <= hi[i]
  ELSE lo <= x /\ x <= hi

\* C29: every bounds-driven field of the genome random returns lies within
\* [rndMin, rndMax] of its Bounds and within [min, max]; on a genome whose
\* fields are all bounds-driven, check then returns true and changes nothing.
C29_RandomWithinBounds ==
  out.op = "random" =>
    /\ out.st = "ok"
    /\ \A i \in 1..Len(Registry(Genome)) :
         LET m == Registry(Genome)[i]
         IN  m.kind = "bounds" =>
               /\ Within(m.type, g1[m.name], conf[Genome][m.bounds].rndMin,
                         conf[Genome][m.bounds].rndMax)
               /\ Within(m.type, g1[m.name], conf[Genome][m.bounds].min,
                         conf[Genome][m.bounds].max)
    /\ (\A i \in 1..Len(Registry(Genome)) : Registry(Genome)[i].kind = "bounds")
         => EDNA_check(conf, Genome, g1) = [g |-> g1, ok |-> TRUE]

-----------------------------------------------------------------------------
(* The registry over a run: the static initialisation fills _iterator, then *)
(* the operations of EDNA<G> read it                                        *)

\* a lookup that stores the name it did not find
Iterator_at_storing(r, name) ==
  [registry |-> IF name \in DOMAIN r THEN r
                ELSE [k \in (DOMAIN r) \cup {name} |->
                        IF k = name THEN r[CHOOSE x \in DOMAIN r : TRUE]
                        ELSE r[k]],
   thrown   |-> name \notin DOMAIN r,
   m        |-> IF name \in DOMAIN r THEN r[name] ELSE <<>>]

\* _iterator.at(fieldName) and _iterator.find(localField): the map as the
\* call leaves it, whether the key is missing (at throws std::out_of_range,
\* getField throws invalid_argument after find), and the manager found
Iterator_at(r, name) ==
  [registry |-> r,
   thrown   |-> name \notin DOMAIN r,
   m        |-> IF name \in DOMAIN r THEN r[name] ELSE <<>>]

\* the operations that run once the static initialisation is over
RunTimeOps ==
  {"random", "mutate", "cross", "distance", "check", "getField", "to_json",
   "from_json", "aggregate", "operator<<", "operator==", "input"}

\* main runs: every DEFINE_GENOME_FIELD_* line of the genome type was
\* executed and none threw
Started ==
  /\ Cardinality(DOMAIN registry) = Len(DefinitionOrder(Genome))
  /\ ~(out.op = "define" /\ out.thrown)

\* the record of an operation on the registry `pre`
RegStep(op, name, thrown) ==
  [NoStep EXCEPT !.op = op, !.name = name, !.pre = registry,
                 !.thrown = thrown]

InitRegistry ==
  /\ FieldIdle
  /\ Genome \in GenomeTypes
  /\ conf = ConfigMR(WithRnd(WideBounds), TestWeights, TestRates)
  /\ origin = [p \in DOMAIN conf[Genome] |-> Origin_DEFAULT]
  /\ g1 = BaseGenome(Genome)
  /\ g2 = OtherGenome(Genome)
  /\ json = JNull
  /\ out = NoStep
  /\ registry = <<>>
  /\ dice = <<FastDice([i \in 1..Period |-> i % (RawMax + 1)])>>
  /\ files = <<>>
  /\ pc = <<>>
  /\ mtx = 0
  /\ stream = <<>>

\* the mutation rates are read from a configuration file or the environment
RegInput ==
  /\ Started
  /\ \E text \in ParamTexts(Genome, "mutationRates"),
        o \in {Origin_FILE, Origin_ENVIRONMENT} :
       LET r == IConfigValue_input("map", ConfigValue("mutationRates"), text, o)
       IN  /\ conf' = [conf EXCEPT ![Genome].mutationRates = r.value]
           /\ origin' = [origin EXCEPT !.mutationRates = r.origin]
  /\ out' = RegStep("input", "mutationRates", FALSE)
  /\ UNCHANGED <<Genome, g1, g2, json>>
  /\ UNCHANGED fieldVars
  /\ UNCHANGED <<registry, dice, files, pc, mtx, stream>>

\* g1 = G::random(dice): for (auto &it: _iterator) get(it).random(tmp, dice)
RegRandom ==
  /\ Started
  /\ dice[1].n <= MaxUse
  /\ LET r == EDNA_random(conf, Genome, dice[1], BaseGenome("External"))
     IN  /\ g1' = r.g
         /\ dice' = <<r.dice>>
         /\ out' = RegStep("random", "", r.st # "ok")
  /\ UNCHANGED <<Genome, conf, g2, json>>
  /\ UNCHANGED fieldVars
  /\ UNCHANGED <<registry, files>>
  /\ UNCHANGED sysVars

\* g1.mutate(dice): the name drawn from the rates is looked up with
\* _iterator.at and the manager found mutates its field; the genome of the
\* model is mutated while it is one of the two it starts from
RegMutate ==
  /\ Started
  /\ g1 \in {BaseGenome(Genome), OtherGenome(Genome)}
  /\ \E name \in pickOne(conf[Genome].mutationRates) :
       LET a == Iterator_at(registry, name)
       IN  /\ registry' = a.registry
           /\ IF a.thrown
                THEN /\ g1' = g1
                     /\ out' = RegStep("mutate", name, TRUE)
                ELSE \E r \in Manager_mutate(conf, Genome, a.m, g1[name], TRUE) :
                       /\ g1' = [g1 EXCEPT ![name] = r.v]
                       /\ out' = RegStep("mutate", name, r.st # "ok")
  /\ UNCHANGED <<Genome, conf, g2, json>>
  /\ UNCHANGED fieldVars
  /\ UNCHANGED <<dice, files>>
  /\ UNCHANGED sysVars

\* g1 = cross(g1, g2, dice): for (auto &it: _iterator) get(it).cross(...)
RegCross ==
  /\ Started
  /\ g1 \in {BaseGenome(Genome), OtherGenome(Genome)}
  /\ \E r \in EDNA_cross(conf, Genome, g1, g2, TRUE) :
       /\ g1' = r.g
       /\ out' = RegStep("cross", "", r.st # "ok")
  /\ UNCHANGED <<Genome, conf, g2, json>>
  /\ UNCHANGED fieldVars
  /\ UNCHANGED extVars

\* g1.check(): for (auto &it: _iterator) ok &= get(it).check(object)
RegCheck ==
  /\ Started
  /\ g1' = EDNA_check(conf, Genome, g1).g
  /\ out' = RegStep("check", "", FALSE)
  /\ UNCHANGED <<Genome, conf, g2, json>>
  /\ UNCHANGED fieldVars
  /\ UNCHANGED extVars

\* g1.getField(path): the head of the path is looked up with _iterator.find
RegGetField ==
  /\ Started
  /\ \E h \in PathHeads(Genome) :
       LET a == Iterator_at(registry, h[1].x)
       IN  /\ registry' = a.registry
           /\ out' = RegStep("getField", h[1].x,
                             EDNA_getField(Genome, g1, h).thrown)
  /\ UNCHANGED <<Genome, conf, g1, g2, json>>
  /\ UNCHANGED fieldVars
  /\ UNCHANGED <<dice, files>>
  /\ UNCHANGED sysVars

\* json = g1: for (auto &it: _iterator) get(it).to_json(j[alias], g)
RegToJson ==
  /\ Started
  /\ json' = EDNA_to_json(Genome, g1)
  /\ out' = RegStep("to_json", "", FALSE)
  /\ UNCHANGED <<Genome, conf, g1, g2>>
  /\ UNCHANGED fieldVars
  /\ UNCHANGED extVars

\* g1 = json: for (auto &it: _iterator) gf.from_json(*jit, g), then check
RegFromJson ==
  /\ Started
  /\ json # JNull
  /\ LET r == EDNA_from_json(conf, Genome, json, g1)
     IN  /\ g1' = r.g
         /\ out' = RegStep("from_json", "", r.thrown)
  /\ UNCHANGED <<Genome, conf, g2, json>>
  /\ UNCHANGED fieldVars
  /\ UNCHANGED extVars

\* the operations that read the registry and the genomes and write neither:
\* distance(g1, g2), G::aggregate(os, {g1, g2}), os << g1, g1 == g2, each
\* with for (auto &it: _iterator)
RegRead ==
  /\ Started
  /\ \E op \in {"distance", "aggregate", "operator<<", "operator=="} :
       out' = RegStep(op, "",
                      IF op = "distance" THEN EDNA_distance_at(conf, Genome)
                      ELSE FALSE)
  /\ UNCHANGED <<Genome, conf, g1, g2, json>>
  /\ UNCHANGED fieldVars
  /\ UNCHANGED extVars

NextRegistry ==
  \/ DefineField \/ RegInput \/ RegRandom \/ RegMutate \/ RegCross
  \/ RegCheck \/ RegGetField \/ RegToJson \/ RegFromJson \/ RegRead

SpecRegistry == InitRegistry /\ [][NextRegistry]_vars

\* C22: a field manager that is constructed adds exactly one entry to the
\* registry, under its field name, and leaves the other entries as they
\* were; random, mutate, cross, distance, check, getField, to_json,
\* from_json, aggregate, operator<< and operator== leave the registry as
\* they found it, and run on the registry that holds every field.
C22_RegistryReadOnly ==
  /\ (out.op = "define" /\ ~out.thrown) =>
       /\ out.name \notin DOMAIN out.pre
       /\ DOMAIN registry = (DOMAIN out.pre) \cup {out.name}
       /\ registry[out.name] = ManagerOf(Genome, out.name)
       /\ \A k \in DOMAIN out.pre : registry[k] = out.pre[k]
  /\ out.op \in RunTimeOps =>
       /\ registry = out.pre
       /\ DOMAIN registry = FieldNames(Genome)
       /\ \A k \in DOMAIN registry : registry[k] = ManagerOf(Genome, k)

\* mutate drew a name that is no field (the rates were read again) and
\* getField was given an unknown head: both lookups failed
C22_Witness ==
  /\ out.op \in {"mutate", "getField"}
  /\ out.thrown
  /\ out.name \notin FieldNames(Genome)
  /\ Genome = "External"

-----------------------------------------------------------------------------
(* AtomicDice shared by several threads: every thread draws from and resets *)
(* the same dice; a step of the model is one access to shared memory        *)

\* the threads that share the dice
Threads == 2

\* every thread performs at most MaxOps operations
MaxOps == 2

\* the mutexes: 0 is _rng.mtx, t is the mutex of the temporary
\* AtomicRNG_t(newSeed) thread t builds in reset; the value is the owner, 0
\* when the mutex is free
Mutexes == 0..Threads

\* a lock that does not wait for the owner to release the mutex
Mutex_free_always(m, k) == TRUE

\* lock l(mtx) returns once the mutex is free
Mutex_free(m, k) == m[k] = 0

Mutex_lock(m, k, t) == [m EXCEPT ![k] = t]

\* ~unique_lock
Mutex_unlock(m, k, t) == [m EXCEPT ![k] = IF m[k] = t THEN 0 ELSE m[k]]

\* the seeds reset is given
NewSeeds ==
  {[i \in 1..Period |-> i % (RawMax + 1)], [i \in 1..Period |-> 0]}

\* a thread between two calls
Resting(n) == [at |-> "idle", done |-> n, local |-> <<>>]

InitThreads ==
  /\ FieldIdle
  /\ GenomeIdle
  /\ registry = <<>>
  /\ files = <<>>
  /\ origin = <<>>
  /\ stream = <<>>
  /\ pc = [t \in 1..Threads |-> Resting(0)]
  /\ mtx = [k \in Mutexes |-> 0]
  /\ dice = <<FastDice([i \in 1..Period |-> i % (RawMax + 1)])>>

\* thread t calls dice(dist): d(getRNG()) calls the virtual operator()
CallDraw ==
  /\ \E t \in 1..Threads :
       /\ pc[t].at = "idle"
       /\ pc[t].done < MaxOps
       /\ pc' = [pc EXCEPT ![t].at = "draw_lock"]
       /\ UNCHANGED <<mtx, dice>>
  /\ UNCHANGED fieldVars
  /\ UNCHANGED genomeVars
  /\ UNCHANGED <<registry, files, origin, stream>>

\* AtomicRNG_t::operator(): lock l(mtx)
DrawLock ==
  /\ \E t \in 1..Threads :
       /\ pc[t].at = "draw_lock"
       /\ Mutex_free(mtx, 0)
       /\ mtx' = Mutex_lock(mtx, 0, t)
       /\ pc' = [pc EXCEPT ![t].at = "draw_read"]
       /\ UNCHANGED dice
  /\ UNCHANGED fieldVars
  /\ UNCHANGED genomeVars
  /\ UNCHANGED <<registry, files, origin, stream>>

\* RNG_t::operator() reads the state of the engine
DrawRead ==
  /\ \E t \in 1..Threads :
       /\ pc[t].at = "draw_read"
       /\ pc' = [pc EXCEPT ![t].at = "draw_write", ![t].local = dice[1]]
       /\ UNCHANGED <<mtx, dice>>
  /\ UNCHANGED fieldVars
  /\ UNCHANGED genomeVars
  /\ UNCHANGED <<registry, files, origin, stream>>

\* RNG_t::operator() writes the state it advanced
DrawWrite ==
  /\ \E t \in 1..Threads :
       /\ pc[t].at = "draw_write"
       /\ dice' = <<RNG_advance(pc[t].local)>>
       /\ pc' = [pc EXCEPT ![t].at = "draw_unlock"]
       /\ UNCHANGED mtx
  /\ UNCHANGED fieldVars
  /\ UNCHANGED genomeVars
  /\ UNCHANGED <<registry, files, origin, stream>>

\* the lock is released when operator() returns
DrawUnlock ==
  /\ \E t \in 1..Threads :
       /\ pc[t].at = "draw_unlock"
       /\ mtx' = Mutex_unlock(mtx, 0, t)
       /\ pc' = [pc EXCEPT ![t] = Resting(pc[t].done + 1)]
       /\ UNCHANGED dice
  /\ UNCHANGED fieldVars
  /\ UNCHANGED genomeVars
  /\ UNCHANGED <<registry, files, origin, stream>>

\* thread t calls dice.reset(newSeed): the temporary AtomicRNG_t(newSeed)
\* is built in the parameter of operator=
CallReset ==
  /\ \E t \in 1..Threads :
       /\ pc[t].at = "idle"
       /\ pc[t].done < MaxOps
       /\ \E seed \in NewSeeds :
            pc' = [pc EXCEPT ![t].at = "reset_lock_this",
                             ![t].local = FastDice(seed)]
       /\ UNCHANGED <<mtx, dice>>
  /\ UNCHANGED fieldVars
  /\ UNCHANGED genomeVars
  /\ UNCHANGED <<registry, files, origin, stream>>

\* std::lock(lthis, lthat) takes mtx
ResetLockThis ==
  /\ \E t \in 1..Threads :
       /\ pc[t].at = "reset_lock_this"
       /\ Mutex_free(mtx, 0)
       /\ mtx' = Mutex_lock(mtx, 0, t)
       /\ pc' = [pc EXCEPT ![t].at = "reset_lock_that"]
       /\ UNCHANGED dice
  /\ UNCHANGED fieldVars
  /\ UNCHANGED genomeVars
  /\ UNCHANGED <<registry, files, origin, stream>>

\* std::lock(lthis, lthat) takes that.mtx, which no other thread can name
ResetLockThat ==
  /\ \E t \in 1..Threads :
       /\ pc[t].at = "reset_lock_that"
       /\ Mutex_free(mtx, t)
       /\ mtx' = Mutex_lock(mtx, t, t)
       /\ pc' = [pc EXCEPT ![t].at = "reset_swap"]
       /\ UNCHANGED dice
  /\ UNCHANGED fieldVars
  /\ UNCHANGED genomeVars
  /\ UNCHANGED <<registry, files, origin, stream>>

\* swap(*this, that)
ResetSwap ==
  /\ \E t \in 1..Threads :
       /\ pc[t].at = "reset_swap"
       /\ dice' = <<pc[t].local>>
       /\ pc' = [pc EXCEPT ![t].at = "reset_unlock", ![t].local = dice[1]]
       /\ UNCHANGED mtx
  /\ UNCHANGED fieldVars
  /\ UNCHANGED genomeVars
  /\ UNCHANGED <<registry, files, origin, stream>>

\* both locks are released when operator= returns
ResetUnlock ==
  /\ \E t \in 1..Threads :
       /\ pc[t].at = "reset_unlock"
       /\ mtx' = Mutex_unlock(Mutex_unlock(mtx, 0, t), t, t)
       /\ pc' = [pc EXCEPT ![t] = Resting(pc[t].done + 1)]
       /\ UNCHANGED dice
  /\ UNCHANGED fieldVars
  /\ UNCHANGED genomeVars
  /\ UNCHANGED <<registry, files, origin, stream>>

NextThreads ==
  \/ CallDraw \/ DrawLock \/ DrawRead \/ DrawWrite \/ DrawUnlock
  \/ CallReset \/ ResetLockThis \/ ResetLockThat \/ ResetSwap \/ ResetUnlock

SpecThreads == InitThreads /\ [][NextThreads]_vars

\* thread t is inside the draw step of the generator
InDraw(t) == pc[t].at \in {"draw_read", "draw_write"}

\* thread t is inside the swap of a reset
InReset(t) == pc[t].at = "reset_swap"

\* thread t waits for a mutex another thread holds
Waiting(t) ==
  \/ pc[t].at \in {"draw_lock", "reset_lock_this"} /\ ~Mutex_free(mtx, 0)
  \/ pc[t].at = "reset_lock_that" /\ ~Mutex_free(mtx, t)

\* C25: on one AtomicDice shared by several threads no two threads are
\* inside the draw step at the same time, no thread is inside a reset while
\* another is inside a draw or a reset, and whenever some thread is inside a
\* call, some thread inside a call can take its next step.
C25_MutexProtected ==
  /\ \A t, u \in 1..Threads :
       (t # u /\ (InDraw(t) \/ InReset(t))) => ~(InDraw(u) \/ InReset(u))
  /\ (\E t \in 1..Threads : pc[t].at # "idle")
       => \E t \in 1..Threads : pc[t].at # "idle" /\ ~Waiting(t)

\* one thread is inside the draw step while another waits to reset
C25_Witness ==
  \E t, u \in 1..Threads :
    /\ pc[t].at = "draw_write"
    /\ pc[u].at = "reset_lock_this"
    /\ Waiting(u)

-----------------------------------------------------------------------------
(* _details::IndentingOStreambuf: the indenters alive on one stream, the    *)
(* level kept in the stream's iword, and the characters that reach the      *)
(* buffer the stream had at first                                           *)

\* static constexpr uint INDENT = 2
INDENT == 2

\* the indenters alive on the stream at the same time
MaxDepth == 3

\* the characters written to the stream between two ends of line
MaxLine == 2

\* the indenters constructed on the stream over a run of the model
MaxBuilt == 4

\* integers wider than 31 bits are sequences of digits of 16 bits, the
\* least significant first
Base == 65536

\* the number of bits of a long in the builds of the model
LongBits == {32, 64}

\* the unsigned 32-bit value of n, 0 <= n < 2^16
Uint32(n) == <<n, 0>>

\* -n computed on unsigned 32-bit values, 0 < n < 2^16
Uint32_neg(n) == <<Base - n, Base - 1>>

\* the digits x extended with zeros or cut to w bits
Resize(x, w) == [k \in 1..(w \div 16) |-> IF k <= Len(x) THEN x[k] ELSE 0]

\* x + y on w bits, the carry out of the last digit being dropped
AddDigits(x, y, w) ==
  LET n == w \div 16
      RECURSIVE Carry(_)
      Carry(k) == IF k = 0 THEN 0
                  ELSE (x[k] + y[k] + Carry(k - 1)) \div Base
  IN  [k \in 1..n |-> (x[k] + y[k] + Carry(k - 1)) % Base]

\* the sign bit of the digits x
Negative(x) == x[Len(x)] >= Base \div 2

\* i += di for a long i and an unsigned 32-bit di.  Where long has 64 bits di
\* is converted to long and the sum is signed: it overflows when it passes
\* the largest long.  Where long has 32 bits both are converted to
\* unsigned long, the sum wraps and is converted back.
Long_add(w, i, di) ==
  LET sum == AddDigits(i, Resize(di, w), w)
  IN  [v |-> sum, overflow |-> w = 64 /\ ~Negative(i) /\ Negative(sum)]

\* indent that returns the long it read
IndentingOStreambuf_indent_long(w, i, di) ==
  LET r == IF di = Uint32(0) THEN [v |-> i, overflow |-> FALSE]
           ELSE Long_add(w, i, di)
  IN  [iword |-> r.v, overflow |-> r.overflow,
       ret |-> IF \A k \in 3..Len(r.v) : r.v[k] = 0 THEN Resize(r.v, 32)
               ELSE r.v]

\* uint indent (uint di = 0): long &i = _owner->iword(index());
\* if (di != 0) i += di; return i;  the long is converted to uint on return
IndentingOStreambuf_indent(w, i, di) ==
  LET r == IF di = Uint32(0) THEN [v |-> i, overflow |-> FALSE]
           ELSE Long_add(w, i, di)
  IN  [iword |-> r.v, overflow |-> r.overflow, ret |-> Resize(r.v, 32)]

\* the length of std::string(n, ' ') for the digits n, as far as the model
\* writes it: Base stands for any length of Base or more
Spaces(n) ==
  IF \A k \in 2..Len(n) : n[k] = 0 THEN n[1] ELSE Base

\* the iword after c indenters were constructed and destroyed on a stream
\* where long has 64 bits: every such pair adds 2^32; after 2^31 - 1 pairs
AfterManyCycles == <<0, 0, Base - 1, (Base \div 2) - 1>>

\* sputc(ch) on buffer b of the stream: buffer 0 is the one the stream had
\* at first and receives the character; buffer b > 0 is the indenter
\* chain[b], which has no put area, so that every character goes through
\* its overflow: at the start of a line and unless ch is the end of line, it
\* first hands its _indent to its _buffer with sputn, then ch with sputc
RECURSIVE Streambuf_sputc(_, _, _)
Streambuf_sputc(st, b, ch) ==
  IF b = 0
    THEN IF ch = "\n"
           THEN [st EXCEPT !.line = <<>>, !.lineDepth = 0]
           ELSE [st EXCEPT !.line = Append(st.line, ch),
                           !.lineDepth = IF st.line = <<>> THEN Len(st.chain)
                                         ELSE st.lineDepth]
    ELSE LET me == st.chain[b]
             RECURSIVE Sputn(_, _)
             Sputn(s, n) ==
               IF n = 0 THEN s ELSE Sputn(Streambuf_sputc(s, me.buffer, " "), n - 1)
             s1 == IF me.isAtStartOfLine /\ ch # "\n"
                     THEN Sputn(st, me.indent) ELSE st
             s2 == [s1 EXCEPT !.chain[b].isAtStartOfLine = (ch = "\n")]
         IN  Streambuf_sputc(s2, me.buffer, ch)

NoStream == [op |-> "init", wasRdbuf |-> 0, wasLevel |-> Uint32(0)]

InitStream ==
  /\ FieldIdle
  /\ Genome = "InternalTrivial"
  /\ conf = Config(WideBounds, TestWeights)
  /\ g1 = DefaultGenome("InternalTrivial")
  /\ g2 = DefaultGenome("InternalTrivial")
  /\ json = JNull
  /\ out = NoStream
  /\ registry = <<>>
  /\ dice = <<>>
  /\ files = <<>>
  /\ origin = <<>>
  /\ pc = <<>>
  /\ mtx = 0
  /\ \E w \in LongBits :
       \E i \in {Resize(Uint32(0), w)}
                \cup (IF w = 64 THEN {AfterManyCycles} ELSE {}) :
         stream = [long |-> w, iword |-> i, rdbuf |-> 0, chain |-> <<>>,
                   line |-> <<>>, lineDepth |-> 0, built |-> 0]

\* _details::IndentingOStreambuf indent(os), as operator<< and aggregate
\* construct it: _buffer(dest.rdbuf()), _isAtStartOfLine(true),
\* _indent(indent(INDENT), ' '), then _owner->rdbuf(this)
StreamConstruct ==
  /\ ~aborted
  /\ Len(stream.chain) < MaxDepth
  /\ stream.built < MaxBuilt
  /\ LET r == IndentingOStreambuf_indent(stream.long, stream.iword,
                                         Uint32(INDENT))
         was == [rdbuf |-> stream.rdbuf,
                 level |-> IndentingOStreambuf_indent(stream.long, stream.iword,
                                                      Uint32(0)).ret]
     IN  /\ stream' = [stream EXCEPT
                         !.iword = r.iword,
                         !.chain = Append(stream.chain,
                                     [buffer |-> stream.rdbuf,
                                      isAtStartOfLine |-> TRUE,
                                      indent |-> Spaces(r.ret),
                                      level |-> r.ret,
                                      was |-> was]),
                         !.rdbuf = Len(stream.chain) + 1,
                         !.built = stream.built + 1]
         /\ out' = [NoStream EXCEPT !.op = "construct"]
  /\ UNCHANGED <<Genome, conf, g1, g2, json>>
  /\ UNCHANGED fieldVars
  /\ UNCHANGED <<registry, dice, files, origin, pc, mtx>>

\* ~IndentingOStreambuf of the indenter constructed last (the indenters are
\* automatic objects): _owner->rdbuf(_buffer); indent(-INDENT);  a signed
\* overflow of the long is undefined: the sum wraps or the program stops
StreamDestroy ==
  /\ ~aborted
  /\ stream.chain # <<>>
  /\ LET me == stream.chain[Len(stream.chain)]
         r  == IndentingOStreambuf_indent(stream.long, stream.iword,
                                          Uint32_neg(INDENT))
     IN  /\ stream' = [stream EXCEPT
                         !.rdbuf = me.buffer,
                         !.iword = r.iword,
                         !.chain = SubSeq(stream.chain, 1, Len(stream.chain) - 1)]
         /\ aborted' \in (IF r.overflow THEN BOOLEAN ELSE {FALSE})
         /\ out' = [NoStream EXCEPT !.op = "destroy",
                                    !.wasRdbuf = me.was.rdbuf,
                                    !.wasLevel = me.was.level]
  /\ UNCHANGED <<Genome, conf, g1, g2, json>>
  /\ UNCHANGED <<NDEBUG, T, bounds, v, last>>
  /\ UNCHANGED <<registry, dice, files, origin, pc, mtx>>

\* os << ch: the character goes to the buffer the stream holds
StreamWrite ==
  /\ ~aborted
  /\ Len(stream.line) < MaxLine + INDENT * MaxDepth * MaxDepth
  /\ Cardinality({k \in 1..Len(stream.line) : stream.line[k] # " "}) < MaxLine
  /\ \A b \in 1..Len(stream.chain) : stream.chain[b].indent < Base
  /\ \E ch \in {"x", "\n"} :
       stream' = Streambuf_sputc(stream, stream.rdbuf, ch)
  /\ out' = [NoStream EXCEPT !.op = "write"]
  /\ UNCHANGED <<Genome, conf, g1, g2, json>>
  /\ UNCHANGED fieldVars
  /\ UNCHANGED <<registry, dice, files, origin, pc, mtx>>

NextStream == StreamConstruct \/ StreamDestroy \/ StreamWrite

SpecStream == InitStream /\ [][NextStream]_vars

\* the level the next indenter would be given, and the level it would read
\* before adding INDENT
NextLevel(di) ==
  IndentingOStreambuf_indent(stream.long, stream.iword, Uint32(di)).ret

\* C26: once an indenter is destroyed the stream holds the buffer it held
\* before that indenter was constructed, and the level an indenter obtains
\* is the level obtained before that indenter was constructed; every
\* indenter alive obtained INDENT more than the one below it.  The level is
\* a long, incremented by unsigned 32-bit values and returned as uint.
C26_IndentationScoped ==
  ~aborted =>
    /\ out.op = "destroy" =>
         /\ stream.rdbuf = out.wasRdbuf
         /\ NextLevel(0) = out.wasLevel
    /\ stream.rdbuf = Len(stream.chain)
    /\ NextLevel(0) = Uint32(INDENT * Len(stream.chain))
    /\ \A b \in 1..Len(stream.chain) :
         /\ stream.chain[b].level = Uint32(INDENT * b)
         /\ stream.chain[b].buffer = b - 1

\* an indenter nested in another was destroyed on a stream whose iword no
\* longer fits 32 bits
C26_Witness ==
  /\ ~aborted
  /\ out.op = "destroy"
  /\ stream.long = 64
  /\ Len(stream.chain) = 1
  /\ \E k \in 3..4 : stream.iword[k] # 0

\* the spaces at the start of a line
LeadingSpaces(line) ==
  Cardinality({k \in 1..Len(line) : \A q \in 1..k : line[q] = " "})

\* C30: with k indenters alive on the stream, each constructed while the
\* one before is alive, a non-empty line reaches the first buffer of the
\* stream prefixed by k x INDENT spaces.
C30_NestedIndent ==
  (/\ stream.line # <<>>
   /\ stream.lineDepth = Len(stream.chain)
   /\ \E k \in 1..Len(stream.line) : stream.line[k] # " ")
    => LeadingSpaces(stream.line) = INDENT * Len(stream.chain)

====
